---- MODULE Spec2Model ----
(***************************************************************************)
(* Abysmal: the compiler (src/src/abysmal/compiler.py) and the decimal     *)
(* stack machine it targets (abysmal.dsm), as a state machine.             *)
(*                                                                         *)
(* ParseSpec    the statement loop of Parser.parse and its post-parse      *)
(*              validation (undefined labels, Tarjan cycle detection).     *)
(***************************************************************************)
EXTENDS Integers, Sequences, FiniteSets, TLC

\* ------------------------------------------------------------------ bounds

\* Statements of one source text in ParseSpec.
MaxStatements == 6

\* The instruction limits a machine is given are 1..MaxLimit.
MaxLimit == 3

\* A run without an instruction limit is followed for this many instructions.
MaxExecuted == 10

\* Lines of a source text that is compiled.
MaxLines == 4

\* ----------------------------------------------------------------- helpers

Range(s) == {s[i] : i \in DOMAIN s}

Min(a, b) == IF a <= b THEN a ELSE b

Reverse(s) == [i \in 1..Len(s) |-> s[Len(s) + 1 - i]]

\* Position of the first occurrence of x in s (0 when absent).
IndexOf(s, x) ==
    IF \E i \in DOMAIN s : s[i] = x
    THEN CHOOSE i \in DOMAIN s : s[i] = x /\ \A j \in 1..(i - 1) : s[j] # x
    ELSE 0

\* ---------------------------------------------------------------- Decimal
\* A decimal is <<sign, coefficient, exponent>>: (-1)^sign * coefficient *
\* 10^exponent, as decimal.Decimal holds it.  Its str() is one-to-one on these
\* triples, so the triple also stands for the string.

RECURSIVE Pow10(_)
Pow10(n) == IF n <= 0 THEN 1 ELSE 10 * Pow10(n - 1)

Dec(n) == IF n < 0 THEN <<1, -n, 0>> ELSE <<0, n, 0>>

DECIMAL_ZERO == Dec(0)

DECIMAL_ONE == Dec(1)

Bool(b) == IF b THEN DECIMAL_ONE ELSE DECIMAL_ZERO

\* The coefficient with its sign, scaled to the exponent e <= d[3].
Scaled(d, e) == (IF d[1] = 1 THEN -d[2] ELSE d[2]) * Pow10(d[3] - e)

IsZero(d) == d[2] = 0

\* Numeric comparison: negative, zero or positive as a < b, a = b, a > b.
DecCmp(a, b) ==
    LET e == Min(a[3], b[3]) IN Scaled(a, e) - Scaled(b, e)

\* Decimal.__neg__: the negation of a zero is a positive zero.
DecNeg(a) == IF IsZero(a) THEN <<0, 0, a[3]>> ELSE <<1 - a[1], a[2], a[3]>>

\* Decimal.__add__ (no rounding: coefficients stay far below the precision).
DecAdd(a, b) ==
    LET e == Min(a[3], b[3])
        n == Scaled(a, e) + Scaled(b, e)
    IN IF n < 0 THEN <<1, -n, e>>
       ELSE IF n > 0 THEN <<0, n, e>>
       ELSE <<Min(a[1], b[1]), 0, e>>

\* Decimal.__sub__: self + other.copy_negate()
DecSub(a, b) == DecAdd(a, <<1 - b[1], b[2], b[3]>>)

\* Decimal.__mul__
DecMul(a, b) == <<(a[1] + b[1]) % 2, a[2] * b[2], a[3] + b[3]>>

\* Digits a quotient may need beyond the ideal exponent before it is rounded.
DivDigits == 3

RECURSIVE DivShift(_, _, _)
\* The least k <= DivDigits with (n * 10^k) divisible by d (DivDigits if none).
DivShift(n, d, k) ==
    IF k >= DivDigits \/ (n * Pow10(k)) % d = 0 THEN k ELSE DivShift(n, d, k + 1)

\* Decimal.__truediv__ for a non-zero divisor: the exact quotient at the ideal
\* exponent, or at the nearest lower exponent that holds it.
DecDiv(a, b) ==
    LET k == DivShift(a[2], b[2], 0)
    IN <<(a[1] + b[1]) % 2, (a[2] * Pow10(k)) \div b[2], a[3] - b[3] - k>>

RECURSIVE Reduce(_)
\* The canonical form of a value: no trailing zeros, one zero.
Reduce(d) ==
    IF d[2] = 0 THEN DECIMAL_ZERO
    ELSE IF d[2] % 10 = 0 THEN Reduce(<<d[1], d[2] \div 10, d[3] + 1>>)
    ELSE d

\* floor and ceiling of a decimal, as integers.
DecFloor(d) ==
    IF d[3] >= 0 THEN Scaled(d, 0)
    ELSE LET q == d[2] \div Pow10(-d[3])
             exact == d[2] % Pow10(-d[3]) = 0
         IN IF d[1] = 0 THEN q ELSE IF exact THEN -q ELSE -q - 1

DecCeiling(d) == IF DecCmp(Dec(DecFloor(d)), d) = 0 THEN DecFloor(d) ELSE DecFloor(d) + 1

\* Round half to even, to an integer.
DecRound(d) ==
    LET f == DecFloor(d)
        twice == DecCmp(DecMul(Dec(2), DecSub(d, Dec(f))), Dec(1))   \* 2 * frac - 1
    IN IF twice < 0 THEN f
       ELSE IF twice > 0 THEN f + 1
       ELSE IF f % 2 = 0 THEN f ELSE f + 1

\* ------------------------------------------------------------- AST nodes
\* Every node is a record of the same shape; the fields a kind does not have
\* are left at their defaults.  kids holds the children in field order.

NoValue == <<0, 0, 0>>

Node(kind, op, name, value, kids, line) ==
    [kind |-> kind, op |-> op, name |-> name, value |-> value, kids |-> kids, line |-> line]

Variable(name) == Node("Variable", "", name, NoValue, <<>>, 0)

Literal(value) == Node("Literal", "", "", value, <<>>, 0)

\* RandomValue(): the node of `random!`, a tuple without elements.
RandomValue == Node("RandomValue", "", "", NoValue, <<>>, 0)

\* LogicalOp(op, predicates): the n-ary || or &&
LogicalOp(op, predicates) == Node("LogicalOp", op, "", NoValue, predicates, 0)

TerOp(question, yes, no) == Node("TerOp", "", "", NoValue, <<question, yes, no>>, 0)

\* SetMembership(operand, members): the operand is the first child.
SetMembership(operand, members) == Node("SetMembership", "", "", NoValue, <<operand>> \o members, 0)

\* RangeMembership(operand, low, high, low_inclusive, high_inclusive); op holds
\* the two brackets.
RangeMembership(operand, low, high, low_inclusive, high_inclusive) ==
    Node("RangeMembership",
         CASE low_inclusive /\ high_inclusive -> "[]"
           [] low_inclusive /\ ~high_inclusive -> "[)"
           [] ~low_inclusive /\ high_inclusive -> "(]"
           [] OTHER -> "()",
         "", NoValue, <<operand, low, high>>, 0)

low_inclusive(node) == node.op \in {"[]", "[)"}

high_inclusive(node) == node.op \in {"[]", "(]"}

FunctionCall(function, params) == Node("FunctionCall", function, "", NoValue, params, 0)

\* Branch(condition, destination, line_number); a null condition is no child.
Branch(condition, destination, line_number) ==
    Node("Branch", "", destination, NoValue, condition, line_number)

Assignment(target, value, line_number) ==
    Node("Assignment", "", target, NoValue, <<value>>, line_number)

State(label, actions, line_number) ==
    Node("State", "", label, NoValue, actions, line_number)

\* State.branches: the Branch actions of a state, in source order.
branches(state) == SelectSeq(state.kids, LAMBDA action : action.kind = "Branch")

\* State.assignments
assignments(state) == SelectSeq(state.kids, LAMBDA action : action.kind = "Assignment")

\* ------------------------------------------------------------------ state

VARIABLES
    \* Parser
    source,                 \* the logical lines of the source text read so far
    variable_names,         \* Parser.variable_names: the variables pre-defined externally
    constants,              \* Parser.constants: name -> Decimal
    pstatus,                \* "parsing", "ok" (parse returned an AST) or "error"
    perror,                 \* the CompilationError raised: [msg, labels]
    declared_variable_names,\* Parser.declared_variable_names
    initializations,        \* Parser.initializations
    states,                 \* Parser.states
    current_state_label,    \* Parser.current_state_label_token.value ("" = None)
    current_state_actions,  \* Parser.current_state_actions
    line_number,            \* Parser.line_number (one statement per line)
    \* dsm.Program
    dsmal,                  \* the DSMAL handed to dsm.Program: [variables, constants, instructions]
    loaded,                 \* "no", "yes" (Program constructed) or "invalid" (InvalidProgramError)
    \* dsm.Machine
    mstatus,                \* "none" (no machine yet), "ready", "running", "returned", "raised"
    baseline,               \* the variable values given to Program.machine(...)
    variables,              \* the variable value array, by slot
    instruction_limit,      \* <<>> (no limit) or <<N>>
    random_number_iterator, \* [kind |-> "default" | "iter", rest |-> the values still to come]
    pointer,                \* execution pointer
    stack,                  \* value stack
    executed,               \* instructions executed by the current run
    execution_error,        \* the ExecutionError of the current run
    coverage,               \* per instruction: executed by the current run
    \* history (not program state)
    last_call,              \* the last call made on the machine: [op, kwargs]
    created_with,           \* the kwargs of Program.machine(...)
    run_start,              \* variables, iterator and limit when the current run began
    drawn,                  \* the values the current run took from the default random source
    remembered,             \* <<>> or <<the summary of one earlier completed run>>
    \* compile
    cstage,                 \* "" (no compile), "compiling", "done" (compile returned), "hung"
                            \* or "raised" (compile raised KeyError while linking)
    keep_optimizing,        \* AST.optimize: keep_optimizing
    optimization_passes,    \* AST.optimize: optimization_passes
    presented,              \* CodeGenerator.variable_names, in the order of the list
    instructions,           \* CodeGenerator.instructions at the end of generate_code
    source_map,             \* the source map compile returns
    \* get_uncovered_lines
    report_source_map,      \* the source_map argument: per instruction <<>> (None), <<n>> or <<m, n>>
    coverage_tuples,        \* the coverage_tuples argument: a list of boolean vectors
    report,                 \* <<>> or <<the CoverageReport returned>>
    \* the Machines of one Program
    machines,               \* machine -> [exec |-> its execution state, baseline |-> its creation values]
    solo                    \* machine -> the same, had the calls on it been the only calls

parserVars == <<source, variable_names, constants, pstatus, perror, declared_variable_names,
                initializations, states, current_state_label, current_state_actions,
                line_number>>

machineVars == <<dsmal, loaded, mstatus, baseline, variables, instruction_limit,
                 random_number_iterator, pointer, stack, executed, execution_error, coverage,
                 last_call, created_with, run_start, drawn, remembered>>

compilerVars == <<cstage, keep_optimizing, optimization_passes, presented, instructions,
                  source_map>>

reportVars == <<report_source_map, coverage_tuples, report>>

fleetVars == <<machines, solo>>

vars == <<parserVars, machineVars, compilerVars, reportVars, fleetVars>>

\* get_uncovered_lines has not been called.
ReportIdle ==
    /\ report_source_map = <<>>
    /\ coverage_tuples = <<>>
    /\ report = <<>>

\* Program.machine has not been called for any of the Machines of the Program.
FleetIdle ==
    /\ machines = <<>>
    /\ solo = <<>>

NoError == [msg |-> "", labels |-> <<>>]

CompilationError(msg, labels) == [msg |-> msg, labels |-> labels]

\* Parser.state_dict: label -> state.  Labels are unique (a duplicate raises).
state_dict(sts) ==
    [l \in {sts[i].name : i \in DOMAIN sts} |->
        sts[CHOOSE i \in DOMAIN sts : sts[i].name = l /\ \A j \in DOMAIN sts : sts[j].name = l => j <= i]]

\* Parser._end_state
end_state(sts, label, actions, line) ==
    IF label # "" THEN Append(sts, State(label, actions, line)) ELSE sts

\* ------------------------------------------------- Tarjan (Parser.parse)

TarjanInit ==
    [stack |-> <<>>, indices |-> [x \in {} |-> 0], lowlinks |-> [x \in {} |-> 0],
     available_index |-> 0, components |-> <<>>]

\* "If node is a root node, pop the stack and generate an SCC."
pop_component(v, t) ==
    LET p == IndexOf(t.stack, v)
    IN [t EXCEPT !.stack = SubSeq(t.stack, 1, p - 1),
                 !.components = Append(@, Reverse(SubSeq(t.stack, p, Len(t.stack))))]

\* A mutant of visited_successor: the "w in stack_set" test is dropped.
visited_successor_no_stack_test(v, w, t) ==
    [t EXCEPT !.lowlinks[v] = Min(@, t.indices[w])]

\* The successor test of strongconnect, for a visited successor w of v.
visited_successor(v, w, t) ==
    IF w \in Range(t.stack)
    THEN [t EXCEPT !.lowlinks[v] = Min(@, t.indices[w])]
    ELSE t

RECURSIVE strongconnect(_, _, _)
RECURSIVE follow_branches(_, _, _, _)

\* for branch in self.state_dict[v].branches: ...
follow_branches(dict, v, bs, t) ==
    IF bs = <<>> THEN t
    ELSE LET w == Head(bs).name
         IN IF w \notin DOMAIN t.lowlinks
            THEN LET t1 == strongconnect(dict, w, t)
                 IN follow_branches(dict, v, Tail(bs),
                        [t1 EXCEPT !.lowlinks[v] = Min(@, t1.lowlinks[w])])
            ELSE follow_branches(dict, v, Tail(bs), visited_successor(v, w, t))

strongconnect(dict, v, t) ==
    LET t1 == [t EXCEPT !.indices = (v :> t.available_index) @@ @,
                        !.lowlinks = (v :> t.available_index) @@ @,
                        !.available_index = @ + 1,
                        !.stack = Append(@, v)]
        t2 == follow_branches(dict, v, branches(dict[v]), t1)
    IN IF t2.lowlinks[v] = t2.indices[v] THEN pop_component(v, t2) ELSE t2

RECURSIVE visit_states(_, _, _)
\* for state in self.states: if state.label not in lowlinks: strongconnect(state.label)
visit_states(dict, sts, t) ==
    IF sts = <<>> THEN t
    ELSE visit_states(dict, Tail(sts),
            IF Head(sts).name \notin DOMAIN t.lowlinks
            THEN strongconnect(dict, Head(sts).name, t)
            ELSE t)

\* Parser._strongly_connected_components
strongly_connected_components(sts) ==
    visit_states(state_dict(sts), sts, TarjanInit).components

\* -------------------------------------------------- Parser.parse, validation

AllBranches(sts) ==
    LET RECURSIVE cat(_)
        cat(s) == IF s = <<>> THEN <<>> ELSE branches(Head(s)) \o cat(Tail(s))
    IN cat(sts)

\* The checks of Parser.parse after the statement loop, on the final states.
validate(sts) ==
    LET labels == {sts[i].name : i \in DOMAIN sts}
        bs == AllBranches(sts)
        undefined == SelectSeq(bs, LAMBDA b : b.name \notin labels)
        cycles == SelectSeq(strongly_connected_components(sts), LAMBDA c : Len(c) > 1)
    IN IF sts = <<>> THEN CompilationError("no states are defined", <<>>)
       ELSE IF undefined # <<>>
            THEN CompilationError("branch to undefined label", <<Head(undefined).name>>)
       ELSE IF cycles # <<>>
            THEN CompilationError("cycle exists between states", Head(cycles))
       ELSE NoError

\* ------------------------------------------------------ source statements
\* One logical line of source text, already split into tokens:
\*   let NAME = expr | @label: | => @label | NAME = expr | expr => @label
\* expr is the expression as written; its identifiers are resolved by nud.

Stmt(type, name, expr) == [type |-> type, name |-> name, expr |-> expr]

Identifier(name) == Node("identifier", "", name, NoValue, <<>>, 0)

RECURSIVE Identifiers(_)
\* The identifier tokens of an expression.
Identifiers(e) ==
    IF e.kind = "identifier" THEN {e.name}
    ELSE UNION {Identifiers(e.kids[i]) : i \in DOMAIN e.kids}

\* A decimal token: the digits of decimal_whole and of decimal_fraction, and
\* decimal_suffix ("" if the token has none).  value holds all the digits,
\* line the number of those of the fraction.
DecimalToken(decimal_whole, decimal_fraction, decimal_suffix) ==
    Node("decimal", "", decimal_suffix, decimal_whole \o decimal_fraction, <<>>,
         Len(decimal_fraction))

\* left op right, op one of || and &&, as the text has it.
Infix(left, op, right) == Node("infix", op, "", NoValue, <<left, right>>, 0)

\* DECIMAL_TOKEN_SUFFIX_SHIFT_AMOUNTS[suffix.lower()]
DECIMAL_TOKEN_SUFFIX_SHIFT_AMOUNTS(suffix) ==
    CASE suffix = "%" -> -2
      [] suffix \in {"k", "K"} -> 3
      [] suffix \in {"m", "M"} -> 6
      [] suffix \in {"b", "B"} -> 9

RECURSIVE lstrip(_)
\* digits.lstrip('0')
lstrip(digits) ==
    IF digits # <<>> /\ Head(digits) = 0 THEN lstrip(Tail(digits)) ELSE digits

RECURSIVE rstrip(_)
\* digits.rstrip('0')
rstrip(digits) ==
    IF digits # <<>> /\ digits[Len(digits)] = 0
    THEN rstrip(SubSeq(digits, 1, Len(digits) - 1)) ELSE digits

RECURSIVE int(_)
\* The number a string of digits is the numeral of.
int(digits) ==
    IF digits = <<>> THEN 0
    ELSE 10 * int(SubSeq(digits, 1, Len(digits) - 1)) + digits[Len(digits)]

\* Parser._number_from_match: the Decimal of a decimal token.
number_from_match(m) ==
    LET shifted == (Len(m.value) - m.line)
                   + (IF m.name = "" THEN 0 ELSE DECIMAL_TOKEN_SUFFIX_SHIFT_AMOUNTS(m.name))
        digits == IF shifted <= 0 THEN [i \in 1..(-shifted) |-> 0] \o m.value
                  ELSE IF shifted > Len(m.value)
                  THEN m.value \o [i \in 1..(shifted - Len(m.value)) |-> 0]
                  ELSE m.value
        decimal_point == IF shifted <= 0 THEN 0 ELSE shifted
        whole == lstrip(SubSeq(digits, 1, decimal_point))
        fraction == rstrip(SubSeq(digits, decimal_point + 1, Len(digits)))
    IN IF whole = <<>> /\ fraction = <<>> THEN DECIMAL_ZERO
       ELSE <<0, int(whole \o fraction), -Len(fraction)>>

\* Parser._led for || and &&: an operand that is a LogicalOp of the same
\* operator gives its predicates, any other operand is one predicate.
led(op, left, right) ==
    LogicalOp(op, (IF left.kind = "LogicalOp" /\ left.op = op THEN left.kids ELSE <<left>>)
                  \o (IF right.kind = "LogicalOp" /\ right.op = op THEN right.kids ELSE <<right>>))

RECURSIVE nud(_, _, _)
\* Parser._parse_expression on an expression of the text: an identifier that
\* names a constant becomes its Literal and any other a Variable (unknown
\* names are rejected by undeclared below), a decimal token the Literal of its
\* number, || and && a LogicalOp.
nud(e, consts, known) ==
    IF e.kind = "identifier"
    THEN IF e.name \in DOMAIN consts THEN Literal(consts[e.name]) ELSE Variable(e.name)
    ELSE IF e.kind = "decimal" THEN Literal(number_from_match(e))
    ELSE IF e.kind = "infix"
    THEN led(e.op, nud(e.kids[1], consts, known), nud(e.kids[2], consts, known))
    ELSE [e EXCEPT !.kids = [i \in DOMAIN e.kids |-> nud(e.kids[i], consts, known)]]

RECURSIVE Assignments(_)
\* The assignments `target = value` written inside an expression.
Assignments(e) ==
    (IF e.kind = "Assignment" THEN {e} ELSE {})
    \cup UNION {Assignments(e.kids[i]) : i \in DOMAIN e.kids}

\* 'reference to undeclared variable': an identifier, or the target of an
\* assignment, that is no constant and no variable known at this point of the
\* text.
undeclared(e, consts, known) ==
    \E n \in Identifiers(e) \cup {a.name : a \in Assignments(e)} :
        n \notin DOMAIN consts /\ n \notin known

\* The error Parser._led raises on an `=` inside the expression e, or NoError.
\* in_assignment: the expression is the value of an assignment or of a let.
led_error(e, consts, in_assignment) ==
    IF Assignments(e) = {} THEN NoError
    ELSE IF in_assignment \/ \E a \in Assignments(e) : Assignments(a.kids[1]) # {}
    THEN CompilationError("chained assignment is not allowed - did you mean == instead?", <<>>)
    ELSE IF \E a \in Assignments(e) : a.name \in DOMAIN consts
    THEN CompilationError("illegal assignment", <<>>)
    ELSE IF e.kind = "Assignment"
    THEN CompilationError("expected end-of-line but found => instead", <<>>)
    ELSE NoError

RECURSIVE at_line(_, _)
\* The assignments inside an expression get the line they are read on.
at_line(node, line) ==
    [node EXCEPT !.kids = [i \in DOMAIN node.kids |-> at_line(node.kids[i], line)],
                 !.line = IF node.kind = "Assignment" THEN line ELSE @]

\* Parser._make_branch with the self-branch test left out (a mutant).
make_branch_error_none(destination, label) == NoError

\* Parser._make_branch: the error it raises, NoError if it returns the Branch.
make_branch_error(destination, label) ==
    IF destination = label
    THEN CompilationError("branch to itself in state", <<destination>>)
    ELSE NoError

\* The CompilationError Parser._parse_statement raises on this statement, or
\* NoError.  known: the variables in scope.
statement_error(stmt) ==
    LET known == variable_names \cup declared_variable_names
    IN IF stmt.type = "let"
       THEN IF current_state_label # ""
            THEN CompilationError("variables must be declared before the first state definition", <<>>)
            ELSE IF stmt.name \in DOMAIN constants
            THEN CompilationError("redeclaration of constant", <<stmt.name>>)
            ELSE IF stmt.name \in known
            THEN CompilationError("redeclaration of variable", <<stmt.name>>)
            ELSE IF undeclared(stmt.expr[1], constants, known)
            THEN CompilationError("reference to undeclared variable", <<>>)
            ELSE led_error(stmt.expr[1], constants, TRUE)
       ELSE IF stmt.type = "label"
       THEN IF stmt.name \in {s.name : s \in Range(end_state(states, current_state_label, current_state_actions, 0))}
            THEN CompilationError("duplicate label", <<stmt.name>>)
            ELSE NoError
       ELSE IF current_state_label = ""
       THEN CompilationError("missing start state label", <<>>)
       ELSE IF stmt.type = "=>"
       THEN make_branch_error(stmt.name, current_state_label)
       ELSE IF stmt.type = "assign"
       THEN IF stmt.name \notin DOMAIN constants /\ stmt.name \notin known
            THEN CompilationError("reference to undeclared variable", <<>>)
            ELSE IF stmt.name \in DOMAIN constants
            THEN CompilationError("illegal assignment", <<>>)
            ELSE IF undeclared(stmt.expr[1], constants, known)
            THEN CompilationError("reference to undeclared variable", <<>>)
            ELSE led_error(stmt.expr[1], constants, TRUE)
       ELSE \* "cond": expr => @label
            IF undeclared(stmt.expr[1], constants, known)
            THEN CompilationError("reference to undeclared variable", <<>>)
            ELSE IF led_error(stmt.expr[1], constants, FALSE) # NoError
            THEN led_error(stmt.expr[1], constants, FALSE)
            ELSE make_branch_error(stmt.name, current_state_label)

\* ----------------------------------------------------------- Parser actions

ParserInit(names, consts) ==
    /\ source = <<>>
    /\ variable_names = names
    /\ constants = consts
    /\ pstatus = "parsing"
    /\ perror = NoError
    /\ declared_variable_names = {}
    /\ initializations = <<>>
    /\ states = <<>>
    /\ current_state_label = ""
    /\ current_state_actions = <<>>
    /\ line_number = 1

\* One iteration of the statement loop of Parser.parse: _parse_statement on
\* the next logical line.
ParseStatement(stmt) ==
    /\ pstatus = "parsing"
    /\ source' = Append(source, stmt)
    /\ LET err == statement_error(stmt)
           known == variable_names \cup declared_variable_names
       IN IF err # NoError
          THEN /\ pstatus' = "error"
               /\ perror' = err
               /\ UNCHANGED <<declared_variable_names, initializations, states,
                              current_state_label, current_state_actions, line_number>>
          ELSE /\ UNCHANGED <<pstatus, perror>>
               /\ line_number' = line_number + 1
               /\ IF stmt.type = "let"
                  THEN /\ declared_variable_names' = declared_variable_names \cup {stmt.name}
                       /\ initializations' = Append(initializations,
                              Assignment(stmt.name, nud(stmt.expr[1], constants, known), line_number))
                       /\ UNCHANGED <<states, current_state_label, current_state_actions>>
                  ELSE IF stmt.type = "label"
                  THEN /\ states' = end_state(states, current_state_label, current_state_actions, 0)
                       /\ current_state_label' = stmt.name
                       /\ current_state_actions' = <<>>
                       /\ UNCHANGED <<declared_variable_names, initializations>>
                  ELSE /\ current_state_actions' = Append(current_state_actions,
                              IF stmt.type = "=>" THEN Branch(<<>>, stmt.name, line_number)
                              ELSE IF stmt.type = "assign"
                              THEN Assignment(stmt.name, nud(stmt.expr[1], constants, known), line_number)
                              ELSE Branch(<<at_line(nud(stmt.expr[1], constants, known), line_number)>>,
                                          stmt.name, line_number))
                       /\ UNCHANGED <<declared_variable_names, initializations, states, current_state_label>>
    /\ UNCHANGED <<variable_names, constants>>

\* End of input: the last _end_state and the post-parse checks of Parser.parse.
EndOfInput ==
    /\ pstatus = "parsing"
    /\ LET sts == end_state(states, current_state_label, current_state_actions, 0)
           err == validate(sts)
       IN /\ states' = sts
          /\ perror' = err
          /\ pstatus' = IF err = NoError THEN "ok" ELSE "error"
    /\ UNCHANGED <<source, variable_names, constants, declared_variable_names, initializations,
                   current_state_label, current_state_actions, line_number>>

\* ----------------------------------------------------------- str(Decimal)
\* A string is modelled as the sequence of its characters.

DigitChar(d) == <<"0", "1", "2", "3", "4", "5", "6", "7", "8", "9">>[d + 1]

RECURSIVE Digits(_)
\* The decimal digits of a natural number.
Digits(n) == IF n < 10 THEN <<DigitChar(n)>> ELSE Append(Digits(n \div 10), DigitChar(n % 10))

Zeros(n) == [i \in 1..n |-> "0"]

\* str(value) of a Decimal: plain notation when the exponent is at most 0 and
\* the value is not too small, scientific notation otherwise.
str(d) ==
    LET digits == Digits(d[2])
        leftdigits == d[3] + Len(digits)
        dotplace == IF d[3] <= 0 /\ leftdigits > -6 THEN leftdigits ELSE 1
        intpart == IF dotplace <= 0 THEN <<"0">>
                   ELSE IF dotplace >= Len(digits) THEN digits \o Zeros(dotplace - Len(digits))
                   ELSE SubSeq(digits, 1, dotplace)
        fracpart == IF dotplace <= 0 THEN <<".">> \o Zeros(-dotplace) \o digits
                    ELSE IF dotplace >= Len(digits) THEN <<>>
                    ELSE <<".">> \o SubSeq(digits, dotplace + 1, Len(digits))
        e == leftdigits - dotplace
        exppart == IF e = 0 THEN <<>>
                   ELSE IF e > 0 THEN <<"E", "+">> \o Digits(e)
                   ELSE <<"E", "-">> \o Digits(-e)
    IN (IF d[1] = 1 THEN <<"-">> ELSE <<>>) \o intpart \o fracpart \o exppart

\* ord(c) of the characters str(Decimal) is made of.
ord(ch) ==
    CASE ch = "+" -> 43 [] ch = "-" -> 45 [] ch = "." -> 46 [] ch = "E" -> 69
      [] OTHER -> 48 + (CHOOSE d \in 0..9 : DigitChar(d) = ch)

RECURSIVE str_less(_, _)
\* s < t on strings.
str_less(s, t) ==
    IF t = <<>> THEN FALSE
    ELSE IF s = <<>> THEN TRUE
    ELSE IF Head(s) # Head(t) THEN ord(Head(s)) < ord(Head(t))
    ELSE str_less(Tail(s), Tail(t))

\* ----------------------------------------------------------- AST.optimize

UnOp(op, operand) == Node("UnOp", op, "", NoValue, <<operand>>, 0)

BinOp(left, op, right) == Node("BinOp", op, "", NoValue, <<left, right>>, 0)

\* UnOp.fold_constants
UnOp_fold_constants(node) ==
    IF node.kids[1].kind # "Literal" THEN node
    ELSE LET value == node.kids[1].value
         IN Literal(CASE node.op = "!" -> (IF ~IsZero(value) THEN DECIMAL_ZERO ELSE DECIMAL_ONE)
                      [] node.op = "+" -> value
                      [] node.op = "-" -> DecNeg(value))

\* A mutant of divide: a division by zero folds to zero.
divide_zero_for_division_by_zero(node, left_value, right_value) ==
    IF IsZero(right_value) THEN Literal(DECIMAL_ZERO)
    ELSE Literal(DecDiv(left_value, right_value))

\* BinOp.fold_constants, op '/': the division raises on a zero divisor, the
\* exception is caught and the node is returned as it is.
divide(node, left_value, right_value) ==
    IF IsZero(right_value) THEN node
    ELSE Literal(DecDiv(left_value, right_value))

\* BinOp.fold_constants (the operators of the modelled texts; no '^')
BinOp_fold_constants(node) ==
    IF node.kids[1].kind # "Literal" \/ node.kids[2].kind # "Literal" THEN node
    ELSE LET left_value == node.kids[1].value
             right_value == node.kids[2].value
             op == node.op
         IN CASE op = "+" -> Literal(DecAdd(left_value, right_value))
              [] op = "-" -> Literal(DecSub(left_value, right_value))
              [] op = "*" -> Literal(DecMul(left_value, right_value))
              [] op = "/" -> divide(node, left_value, right_value)
              [] op = "==" -> Literal(Bool(DecCmp(left_value, right_value) = 0))
              [] op = "!=" -> Literal(Bool(DecCmp(left_value, right_value) # 0))
              [] op = "<" -> Literal(Bool(DecCmp(left_value, right_value) < 0))
              [] op = "<=" -> Literal(Bool(DecCmp(left_value, right_value) <= 0))
              [] op = ">" -> Literal(Bool(DecCmp(left_value, right_value) > 0))
              [] op = ">=" -> Literal(Bool(DecCmp(left_value, right_value) >= 0))

\* isinstance(node, Literal)
IsLiteral(node) == node.kind = "Literal"

\* LogicalOp.fold_constants: a literal that decides the result (non-zero for
\* ||, zero for &&) makes the whole a literal, wherever it stands; the other
\* literals are filtered out.
LogicalOp_fold_constants(node) ==
    LET decides(p) == IsLiteral(p) /\ (IsZero(p.value) <=> node.op = "&&")
        predicates == SelectSeq(node.kids, LAMBDA p : ~IsLiteral(p))
    IN IF \E i \in DOMAIN node.kids : decides(node.kids[i])
       THEN Literal(Bool(node.op = "||"))
       ELSE IF predicates = <<>>
       THEN Literal(Bool(node.op = "&&"))
       ELSE [node EXCEPT !.kids = predicates]

\* TerOp.fold_constants
TerOp_fold_constants(node) ==
    IF ~IsLiteral(node.kids[1]) THEN node
    ELSE IF ~IsZero(node.kids[1].value) THEN node.kids[2] ELSE node.kids[3]

\* SetMembership.fold_constants
SetMembership_fold_constants(node) ==
    LET operand == node.kids[1]
        members == Tail(node.kids)
        nonliteral_members == SelectSeq(members, LAMBDA m : ~IsLiteral(m))
    IN IF ~IsLiteral(operand) \/ ~\E i \in DOMAIN members : IsLiteral(members[i]) THEN node
       ELSE IF \E i \in DOMAIN members :
                  IsLiteral(members[i]) /\ DecCmp(operand.value, members[i].value) = 0
       THEN Literal(DECIMAL_ONE)
       ELSE IF nonliteral_members = <<>> THEN Literal(DECIMAL_ZERO)
       ELSE [node EXCEPT !.kids = <<operand>> \o nonliteral_members]

\* A mutant of RangeMembership.fold_constants: a literal operand makes the
\* membership the conjunction of two comparisons.
RangeMembership_fold_constants_as_conjunction(node) ==
    LET operand == node.kids[1]
        low == node.kids[2]
        high == node.kids[3]
    IN IF ~IsLiteral(operand) THEN node
       ELSE LogicalOp("&&", <<BinOp(operand, IF low_inclusive(node) THEN ">=" ELSE ">", low),
                              BinOp(operand, IF high_inclusive(node) THEN "<=" ELSE "<", high)>>)

\* A mutant of RangeMembership.fold_constants: the bounds count as inclusive.
RangeMembership_fold_constants_inclusive(node) ==
    LET operand == node.kids[1]
        low == node.kids[2]
        high == node.kids[3]
    IN IF ~IsLiteral(operand) THEN node
       ELSE IF IsLiteral(low)
       THEN IF DecCmp(operand.value, low.value) >= 0
            THEN BinOp(operand, "<=", high)
            ELSE Literal(DECIMAL_ZERO)
       ELSE IF IsLiteral(high)
       THEN IF DecCmp(operand.value, high.value) <= 0
            THEN BinOp(operand, ">=", low)
            ELSE Literal(DECIMAL_ZERO)
       ELSE node

\* RangeMembership.fold_constants
RangeMembership_fold_constants(node) ==
    LET operand == node.kids[1]
        low == node.kids[2]
        high == node.kids[3]
    IN IF ~IsLiteral(operand) THEN node
       ELSE IF IsLiteral(low)
       THEN IF DecCmp(operand.value, low.value) > 0
               \/ (low_inclusive(node) /\ DecCmp(operand.value, low.value) = 0)
            THEN BinOp(operand, IF high_inclusive(node) THEN "<=" ELSE "<", high)
            ELSE Literal(DECIMAL_ZERO)
       ELSE IF IsLiteral(high)
       THEN IF DecCmp(operand.value, high.value) < 0
               \/ (high_inclusive(node) /\ DecCmp(operand.value, high.value) = 0)
            THEN BinOp(operand, IF low_inclusive(node) THEN ">=" ELSE ">", low)
            ELSE Literal(DECIMAL_ZERO)
       ELSE node

RECURSIVE extreme(_, _)
\* max(values) (sign 1) and min(values) (sign -1): the first of the greatest
\* (least) values.
extreme(values, sign) ==
    IF Len(values) = 1 THEN values[1]
    ELSE LET rest == extreme(Tail(values), sign)
         IN IF sign * DecCmp(rest, Head(values)) > 0 THEN rest ELSE Head(values)

\* FunctionCall.fold_constants
FunctionCall_fold_constants(node) ==
    IF \E i \in DOMAIN node.kids : ~IsLiteral(node.kids[i]) THEN node
    ELSE LET param_values == [i \in DOMAIN node.kids |-> node.kids[i].value]
             first == param_values[1]
         IN Literal(CASE node.op = "ABS" -> <<0, first[2], first[3]>>
                      [] node.op = "CEILING" -> Dec(DecCeiling(first))
                      [] node.op = "FLOOR" -> Dec(DecFloor(first))
                      [] node.op = "MAX" -> extreme(param_values, 1)
                      [] node.op = "MIN" -> extreme(param_values, -1)
                      [] node.op = "ROUND" ->
                            LET n == DecRound(first)
                            IN <<first[1], IF n < 0 THEN -n ELSE n, 0>>)

\* Branch.fold_constants: <<>> stands for None (the branch is never taken).
Branch_fold_constants(node) ==
    IF node.kids = <<>> \/ node.kids[1].kind # "Literal" THEN <<node>>
    ELSE IF ~IsZero(node.kids[1].value) THEN <<[node EXCEPT !.kids = <<>>]>>
    ELSE <<>>

RECURSIVE rewrite_fold_constants(_)
\* node.rewrite(fold_constants) for an expression, bottom-up.
rewrite_fold_constants(node) ==
    LET rewritten == [node EXCEPT !.kids = [i \in DOMAIN node.kids |-> rewrite_fold_constants(node.kids[i])]]
    IN CASE node.kind = "UnOp" -> UnOp_fold_constants(rewritten)
         [] node.kind = "BinOp" -> BinOp_fold_constants(rewritten)
         [] node.kind = "LogicalOp" -> LogicalOp_fold_constants(rewritten)
         [] node.kind = "TerOp" -> TerOp_fold_constants(rewritten)
         [] node.kind = "SetMembership" -> SetMembership_fold_constants(rewritten)
         [] node.kind = "RangeMembership" -> RangeMembership_fold_constants(rewritten)
         [] node.kind = "FunctionCall" -> FunctionCall_fold_constants(rewritten)
         [] OTHER -> rewritten

\* action.rewrite(fold_constants): <<>> or <<the rewritten action>>.
action_fold_constants(action) ==
    LET rewritten == [action EXCEPT !.kids = [i \in DOMAIN action.kids |-> rewrite_fold_constants(action.kids[i])]]
    IN IF action.kind = "Branch" THEN Branch_fold_constants(rewritten) ELSE <<rewritten>>

RECURSIVE actions_fold_constants(_)
\* State.rewrite: the rewritten actions, those that became None left out.
actions_fold_constants(actions) ==
    IF actions = <<>> THEN <<>>
    ELSE action_fold_constants(Head(actions)) \o actions_fold_constants(Tail(actions))

state_fold_constants(state) == [state EXCEPT !.kids = actions_fold_constants(state.kids)]

RECURSIVE replace_variable(_, _, _)
\* node.rewrite(replace_variable): the Variable `target` becomes `value`.
replace_variable(node, target, value) ==
    IF node.kind = "Variable" THEN (IF node.name = target THEN value ELSE node)
    ELSE [node EXCEPT !.kids = [i \in DOMAIN node.kids |-> replace_variable(node.kids[i], target, value)]]

\* The AST as AST.optimize holds it.
AST(names, inits, sts, keep) ==
    [declared_variable_names |-> names, initializations |-> inits, states |-> sts,
     keep_optimizing |-> keep]

\* ast.rewrite(fold_constants); keep_optimizing is set when a node changed.
ast_fold_constants(ast) ==
    LET inits == [i \in DOMAIN ast.initializations |-> action_fold_constants(ast.initializations[i])[1]]
        sts == [i \in DOMAIN ast.states |-> state_fold_constants(ast.states[i])]
    IN [ast EXCEPT !.initializations = inits, !.states = sts,
                   !.keep_optimizing = @ \/ inits # ast.initializations \/ sts # ast.states]

assignment_targets(sts) ==
    {a.name : a \in UNION {Range(assignments(sts[i])) : i \in DOMAIN sts}}

RECURSIVE convert_from(_, _, _, _)
\* The loop of convert_declared_variables_to_literals from initialization idx
\* on; kept: the initializations that stay.
convert_from(ast, idx, targets, kept) ==
    IF idx > Len(ast.initializations) THEN [ast EXCEPT !.initializations = kept]
    ELSE LET initialization == ast.initializations[idx]
             value == initialization.kids[1]
         IN IF value.kind = "Literal" /\ initialization.name \notin targets
            THEN convert_from(
                    [ast EXCEPT
                        !.keep_optimizing = TRUE,
                        !.initializations = [i \in DOMAIN @ |->
                            IF i > idx THEN replace_variable(@[i], initialization.name, value) ELSE @[i]],
                        !.states = [i \in DOMAIN @ |-> replace_variable(@[i], initialization.name, value)],
                        !.declared_variable_names = @ \ {initialization.name}],
                    idx + 1, targets, kept)
            ELSE convert_from(ast, idx + 1, targets, Append(kept, initialization))

\* convert_declared_variables_to_literals(ast)
convert_declared_variables_to_literals(ast) ==
    convert_from(ast, 1, assignment_targets(ast.states), <<>>)

\* One pass of the loop of AST.optimize.
optimization_pass(ast) ==
    convert_declared_variables_to_literals(ast_fold_constants([ast EXCEPT !.keep_optimizing = FALSE]))

MaxOptimizationPasses == 10

\* ---------------------------------------------------------- CodeGenerator

\* IRInstruction: param is a variable name or a label (name), or the str() of
\* a constant, held as the Decimal it is the str() of (value).
IRInstruction(opcode, name, value, labels, line) ==
    [opcode |-> opcode, name |-> name, value |-> value, labels |-> labels,
     line_number |-> line]

\* CodeGenerator.__init__
NewCodeGenerator ==
    [instructions |-> <<>>, pending_labels |-> <<>>, last_allocated_label |-> 0,
     emitting_line_number |-> 0]

\* CodeGenerator.emit
emit(cg, opcode, name, value) ==
    [cg EXCEPT !.instructions = Append(@, IRInstruction(opcode, name, value, cg.pending_labels,
                                                         cg.emitting_line_number)),
               !.pending_labels = <<>>]

\* CodeGenerator.label_next_instruction
label_next_instruction(cg, label) == [cg EXCEPT !.pending_labels = Append(@, label)]

BinOpcode(op) ==
    CASE op = "+" -> "Ad" [] op = "-" -> "Sb" [] op = "*" -> "Ml" [] op = "/" -> "Dv"
      [] op = "^" -> "Pw" [] op = "==" -> "Eq" [] op = "!=" -> "Ne"
      [] op \in {"<", ">"} -> "Gt" [] op \in {"<=", ">="} -> "Ge"

\* The labels allocate_label hands out: 1, 2, ... (as strings, like the labels
\* of the states).
AllocatedLabels ==
    << "1", "2", "3", "4", "5", "6", "7", "8", "9", "10", "11", "12", "13", "14", "15", "16",
       "17", "18", "19", "20", "21", "22", "23", "24", "25", "26", "27", "28", "29", "30" >>

\* CodeGenerator.allocate_label: the generator after the call
allocate_label(cg) == [cg EXCEPT !.last_allocated_label = @ + 1]

\* The k-th label allocated from the generator cg on.
allocated(cg, k) == AllocatedLabels[cg.last_allocated_label + k]

FunctionOpcode(function) ==
    CASE function = "ABS" -> "Ab" [] function = "CEILING" -> "Cl" [] function = "FLOOR" -> "Fl"
      [] function = "MAX" -> "Mx" [] function = "MIN" -> "Mn" [] function = "ROUND" -> "Rd"

RECURSIVE emit_expression(_, _)
RECURSIVE emit_predicates(_, _, _, _)
RECURSIVE emit_members(_, _, _)
RECURSIVE emit_params(_, _, _, _)
RECURSIVE Assignment_emit(_, _)

\* LogicalOp.emit, the loop: each predicate, then a jump to `label`.
emit_predicates(cg, predicates, opcode, label) ==
    IF predicates = <<>> THEN cg
    ELSE emit_predicates(emit(emit_expression(cg, Head(predicates)), opcode, label, NoValue),
                         Tail(predicates), opcode, label)

\* SetMembership.emit, the loop: Cp, the member, Eq, Jn true_label.
emit_members(cg, members, true_label) ==
    IF members = <<>> THEN cg
    ELSE emit_members(
            emit(emit(emit_expression(emit(cg, "Cp", "", NoValue), Head(members)),
                      "Eq", "", NoValue),
                 "Jn", true_label, NoValue),
            Tail(members), true_label)

\* FunctionCall.emit for MAX and MIN, the loop: each parameter, then the
\* opcode unless the parameter is the first.
emit_params(cg, params, opcode, first) ==
    IF params = <<>> THEN cg
    ELSE emit_params(IF first THEN emit_expression(cg, Head(params))
                     ELSE emit(emit_expression(cg, Head(params)), opcode, "", NoValue),
                     Tail(params), opcode, FALSE)

\* A mutant of LogicalOp.emit: || jumps on zero and && on non-zero.
LogicalOp_emit_jumping_on_the_other(cg, node) ==
    LET or == node.op = "||"
        decided_label == allocated(cg, 1)
        after_label == allocated(cg, 2)
        cg1 == emit_predicates(allocate_label(allocate_label(cg)), node.kids,
                               IF or THEN "Jz" ELSE "Jn", decided_label)
        cg2 == emit(emit(cg1, IF or THEN "Lz" ELSE "Lo", "", NoValue), "Ju", after_label, NoValue)
        cg3 == emit(label_next_instruction(cg2, decided_label), IF or THEN "Lo" ELSE "Lz", "", NoValue)
    IN label_next_instruction(cg3, after_label)

\* LogicalOp.emit
LogicalOp_emit(cg, node) ==
    LET or == node.op = "||"
        decided_label == allocated(cg, 1)
        after_label == allocated(cg, 2)
        cg1 == emit_predicates(allocate_label(allocate_label(cg)), node.kids,
                               IF or THEN "Jn" ELSE "Jz", decided_label)
        cg2 == emit(emit(cg1, IF or THEN "Lz" ELSE "Lo", "", NoValue), "Ju", after_label, NoValue)
        cg3 == emit(label_next_instruction(cg2, decided_label), IF or THEN "Lo" ELSE "Lz", "", NoValue)
    IN label_next_instruction(cg3, after_label)

\* TerOp.emit
TerOp_emit(cg, node) ==
    LET yes_label == allocated(cg, 1)
        after_label == allocated(cg, 2)
        cg1 == emit(emit_expression(allocate_label(allocate_label(cg)), node.kids[1]),
                    "Jn", yes_label, NoValue)
        cg2 == emit(emit_expression(cg1, node.kids[3]), "Ju", after_label, NoValue)
        cg3 == emit_expression(label_next_instruction(cg2, yes_label), node.kids[2])
    IN label_next_instruction(cg3, after_label)

\* SetMembership.emit
SetMembership_emit(cg, node) ==
    LET true_label == allocated(cg, 1)
        after_label == allocated(cg, 2)
        cg1 == emit_members(emit_expression(allocate_label(allocate_label(cg)), node.kids[1]),
                            Tail(node.kids), true_label)
        cg2 == emit(emit(emit(cg1, "Pp", "", NoValue), "Lz", "", NoValue), "Ju", after_label, NoValue)
        cg3 == emit(emit(label_next_instruction(cg2, true_label), "Pp", "", NoValue), "Lo", "", NoValue)
    IN label_next_instruction(cg3, after_label)

\* RangeMembership.emit
RangeMembership_emit(cg, node) ==
    LET false_label == allocated(cg, 1)
        after_label == allocated(cg, 2)
        cg1 == emit(emit_expression(allocate_label(allocate_label(cg)), node.kids[1]),
                    "Cp", "", NoValue)
        cg2 == emit(emit(emit_expression(cg1, node.kids[2]),
                         IF low_inclusive(node) THEN "Ge" ELSE "Gt", "", NoValue),
                    "Jz", false_label, NoValue)
        cg3 == emit(emit(emit(emit_expression(cg2, node.kids[3]),
                              IF high_inclusive(node) THEN "Gt" ELSE "Ge", "", NoValue),
                         "Nt", "", NoValue),
                    "Ju", after_label, NoValue)
        cg4 == emit(emit(label_next_instruction(cg3, false_label), "Pp", "", NoValue),
                    "Lz", "", NoValue)
    IN label_next_instruction(cg4, after_label)

\* FunctionCall.emit
FunctionCall_emit(cg, node) ==
    IF node.op \in {"MAX", "MIN"}
    THEN emit_params(cg, node.kids, FunctionOpcode(node.op), TRUE)
    ELSE emit(emit_expression(cg, node.kids[1]), FunctionOpcode(node.op), "", NoValue)

\* node.emit(code_generator) for the node of an expression.  An Assignment is
\* among them: Parser._led makes one of `=` wherever an expression may stand.
emit_expression(cg, node) ==
    CASE node.kind = "Variable" -> emit(cg, "Lv", node.name, NoValue)
      [] node.kind = "Literal" -> emit(cg, "Lc", "", node.value)
      [] node.kind = "RandomValue" -> emit(cg, "Lr", "", NoValue)
      [] node.kind = "UnOp" ->
            LET cg1 == emit_expression(cg, node.kids[1])
            IN IF node.op = "!" THEN emit(cg1, "Nt", "", NoValue)
               ELSE IF node.op = "-" THEN emit(cg1, "Ng", "", NoValue)
               ELSE cg1
      [] node.kind = "BinOp" ->
            LET swapped == node.op \in {"<", "<="}
                first == IF swapped THEN node.kids[2] ELSE node.kids[1]
                second == IF swapped THEN node.kids[1] ELSE node.kids[2]
            IN emit(emit_expression(emit_expression(cg, first), second),
                    BinOpcode(node.op), "", NoValue)
      [] node.kind = "LogicalOp" -> LogicalOp_emit(cg, node)
      [] node.kind = "TerOp" -> TerOp_emit(cg, node)
      [] node.kind = "SetMembership" -> SetMembership_emit(cg, node)
      [] node.kind = "RangeMembership" -> RangeMembership_emit(cg, node)
      [] node.kind = "FunctionCall" -> FunctionCall_emit(cg, node)
      [] node.kind = "Assignment" -> Assignment_emit(cg, node)

\* bool(condition) as Branch.emit tests it: None is false, and so is every
\* empty tuple.
truth(condition) == condition # <<>> /\ condition[1].kind # "RandomValue"

\* Branch.emit
Branch_emit(cg, branch) ==
    LET cg0 == [cg EXCEPT !.emitting_line_number = branch.line]
        cg1 == IF truth(branch.kids)
               THEN IF branch.kids[1].kind = "UnOp" /\ branch.kids[1].op = "!"
                    THEN emit(emit_expression(cg0, branch.kids[1].kids[1]), "Jz", branch.name, NoValue)
                    ELSE emit(emit_expression(cg0, branch.kids[1]), "Jn", branch.name, NoValue)
               ELSE emit(cg0, "Ju", branch.name, NoValue)
    IN [cg1 EXCEPT !.emitting_line_number = 0]

\* Assignment.emit
Assignment_emit(cg, assignment) ==
    LET cg0 == [cg EXCEPT !.emitting_line_number = assignment.line]
        cg1 == emit(emit_expression(cg0, assignment.kids[1]), "St", assignment.name, NoValue)
    IN [cg1 EXCEPT !.emitting_line_number = 0]

RECURSIVE emit_actions(_, _)
emit_actions(cg, actions) ==
    IF actions = <<>> THEN cg
    ELSE emit_actions(IF Head(actions).kind = "Branch" THEN Branch_emit(cg, Head(actions))
                      ELSE Assignment_emit(cg, Head(actions)),
                      Tail(actions))

last_opcode(cg) ==
    IF cg.instructions = <<>> THEN "" ELSE cg.instructions[Len(cg.instructions)].opcode

\* A mutant of State.emit: no Xx is appended.
State_emit_without_exit(cg, state) ==
    emit_actions(label_next_instruction(cg, state.name), state.kids)

\* State.emit
State_emit(cg, state) ==
    LET cg1 == emit_actions(label_next_instruction(cg, state.name), state.kids)
    IN IF last_opcode(cg1) # "Ju" THEN emit(cg1, "Xx", "", NoValue) ELSE cg1

RECURSIVE emit_states(_, _)
emit_states(cg, sts) ==
    IF sts = <<>> THEN cg ELSE emit_states(State_emit(cg, Head(sts)), Tail(sts))

\* A mutant of generate_ir: the closing Xx is emitted only to carry labels
\* that are still pending.
generate_ir_exit_for_labels(inits, sts) ==
    LET cg == emit_states(emit_actions(NewCodeGenerator, inits), sts)
    IN IF cg.pending_labels # <<>> THEN emit(cg, "Xx", "", NoValue) ELSE cg

\* CodeGenerator.generate_code, "Generate IR instructions"
generate_ir(inits, sts) ==
    LET cg == emit_states(emit_actions(NewCodeGenerator, inits), sts)
    IN IF last_opcode(cg) # "Xx" THEN emit(cg, "Xx", "", NoValue) ELSE cg

Jumps == {"Jn", "Jz", "Ju"}

\* label_to_instruction: label -> index (from 1) of the instruction that has it
label_to_instruction(instrs) ==
    [l \in UNION {Range(instrs[i].labels) : i \in DOMAIN instrs} |->
        CHOOSE i \in DOMAIN instrs :
            /\ l \in Range(instrs[i].labels)
            /\ \A j \in DOMAIN instrs : l \in Range(instrs[j].labels) => j <= i]

RECURSIVE chase(_, _, _, _)
\* The `while True` loop that follows unconditional jumps from target_label:
\* the label it stops at, or "" if it has not stopped after `fuel` jumps
\* (then it never stops: the jumps form a cycle).
chase(instrs, map, target_label, fuel) ==
    LET target_instruction == instrs[map[target_label]]
    IN IF target_instruction.opcode # "Ju" THEN target_label
       ELSE IF fuel = 0 THEN ""
       ELSE chase(instrs, map, target_instruction.name, fuel - 1)

RECURSIVE condense(_, _, _)
\* "Condense chains of unconditional jumps", from instruction i on.
condense(instrs, map, i) ==
    IF i > Len(instrs) THEN [instructions |-> instrs, hung |-> FALSE]
    ELSE IF instrs[i].opcode \notin Jumps THEN condense(instrs, map, i + 1)
    ELSE LET target_label == chase(instrs, map, instrs[i].name, Len(instrs))
         IN IF target_label = "" THEN [instructions |-> instrs, hung |-> TRUE]
            ELSE IF instrs[i].opcode = "Ju" /\ instrs[map[target_label]].opcode = "Xx"
            THEN condense([instrs EXCEPT ![i].opcode = "Xx", ![i].name = ""], map, i + 1)
            ELSE condense([instrs EXCEPT ![i].name = target_label], map, i + 1)

\* A mutant of successors: the target of a conditional jump is not followed.
successors_without_conditional_targets(instrs, map, i) ==
    IF instrs[i].opcode = "Xx" THEN {}
    ELSE IF instrs[i].opcode = "Ju" THEN {map[instrs[i].name]}
    ELSE {i + 1}

\* Where execution may go on after instruction i.
successors(instrs, map, i) ==
    IF instrs[i].opcode = "Xx" THEN {}
    ELSE (IF instrs[i].opcode \in Jumps THEN {map[instrs[i].name]} ELSE {})
         \cup (IF instrs[i].opcode # "Ju" THEN {i + 1} ELSE {})

\* A mutant of reachable_from: every instruction counts as reachable.
reachable_from_anywhere(instrs, map, found) == DOMAIN instrs

RECURSIVE reachable_from(_, _, _)
\* "Delete unreachable instructions": the instructions found from the queue.
reachable_from(instrs, map, found) ==
    LET more == UNION {successors(instrs, map, i) : i \in found} \ found
    IN IF more = {} THEN found ELSE reachable_from(instrs, map, found \cup more)

RECURSIVE select_instructions(_, _, _)
\* [instruction for i, instruction in enumerate(instructions) if i in wanted]
select_instructions(instrs, wanted, i) ==
    IF i > Len(instrs) THEN <<>>
    ELSE (IF i \in wanted THEN <<instrs[i]>> ELSE <<>>) \o select_instructions(instrs, wanted, i + 1)

\* A mutant of delete_jumps_to_next: the pass is left out.
delete_no_jumps(instrs, map, i, deleted) == instrs

RECURSIVE delete_jumps_to_next(_, _, _, _)
\* "Delete unconditional jumps to the next instruction", from instruction i
\* on; deleted: the instructions whose opcode was set to None.
delete_jumps_to_next(instrs, map, i, deleted) ==
    IF i > Len(instrs) THEN select_instructions(instrs, DOMAIN instrs \ deleted, 1)
    ELSE IF instrs[i].opcode = "Ju" /\ map[instrs[i].name] = i + 1
    THEN delete_jumps_to_next([instrs EXCEPT ![i + 1].labels = @ \o instrs[i].labels],
                              map, i + 1, deleted \cup {i})
    ELSE delete_jumps_to_next(instrs, map, i + 1, deleted)

\* CodeGenerator._optimize
optimize(instrs) ==
    LET map == label_to_instruction(instrs)
        condensed == condense(instrs, map, 1)
        reachable == select_instructions(condensed.instructions,
                          reachable_from(condensed.instructions, map, {1}), 1)
    IN IF condensed.hung THEN condensed
       ELSE [instructions |-> delete_jumps_to_next(reachable, label_to_instruction(reachable), 1, {}),
             hung |-> FALSE]

\* ------------------------------------------------------------ dsm.Program
\* abysmal.dsm is a compiled extension whose source is not part of the source
\* tree; it is modelled from its description (the DSMAL format, the opcode
\* table, the run-time errors) and from the behaviour tests/test_dsm.py pins.

Instr(opcode, param) == [opcode |-> opcode, param |-> param]

DSMAL(vs, cs, is) == [variables |-> vs, constants |-> cs, instructions |-> is]

Opcodes ==
    {"Xx", "Ju", "Jn", "Jz", "Lc", "Lv", "Lr", "Lz", "Lo", "St", "Cp", "Pp", "Nt", "Ng",
     "Ab", "Cl", "Fl", "Rd", "Eq", "Ne", "Gt", "Ge", "Ad", "Sb", "Ml", "Dv", "Pw", "Mn", "Mx"}

\* Operands an instruction needs on the stack.
Arity(opcode) ==
    IF opcode \in {"Jn", "Jz", "St", "Cp", "Pp", "Nt", "Ng", "Ab", "Cl", "Fl", "Rd"} THEN 1
    ELSE IF opcode \in {"Eq", "Ne", "Gt", "Ge", "Ad", "Sb", "Ml", "Dv", "Pw", "Mn", "Mx"} THEN 2
    ELSE 0

\* A mutant of InvalidProgramError: jump parameters are validated when loading.
InvalidProgramError_validating_jumps(d) ==
    IF \E i \in DOMAIN d.instructions :
           /\ d.instructions[i].opcode \in {"Ju", "Jn", "Jz"}
           /\ d.instructions[i].param >= Len(d.instructions)
    THEN "invalid jump target" ELSE ""

\* The InvalidProgramError dsm.Program(d) raises ("" if it constructs the
\* Program).  Jump parameters are not looked at.
InvalidProgramError(d) ==
    LET vs == d.variables
        is == d.instructions
    IN IF \E i \in DOMAIN vs : vs[i] = "" THEN "invalid variable name"
       ELSE IF \E i, j \in DOMAIN vs : i # j /\ vs[i] = vs[j] THEN "duplicate variable name"
       ELSE IF is = <<>> THEN "program must contain at least one instruction"
       ELSE IF \E i \in DOMAIN is : is[i].opcode \notin Opcodes THEN "invalid instruction"
       ELSE IF \E i \in DOMAIN is : is[i].opcode = "Lv" /\ is[i].param >= Len(vs)
            THEN "reference to nonexistent variable slot"
       ELSE IF \E i \in DOMAIN is : is[i].opcode = "Lc" /\ is[i].param >= Len(d.constants)
            THEN "reference to nonexistent constant slot"
       ELSE ""

\* A mutant of variable_use_count: only the loads are counted.
variable_use_count_loads_only(instrs, v) ==
    Cardinality({i \in DOMAIN instrs : instrs[i].opcode = "Lv" /\ instrs[i].name = v})

\* variable_use_counts[v]: the Lv and St instructions that name v
variable_use_count(instrs, v) ==
    Cardinality({i \in DOMAIN instrs : instrs[i].opcode \in {"Lv", "St"} /\ instrs[i].name = v})

\* The variable names of the modelled texts, in the order of str.__lt__.
NameOrder == <<"a", "b", "c", "t", "u">>

name_less(v, w) == IndexOf(NameOrder, v) < IndexOf(NameOrder, w)

\* A mutant of variable_key_less: the key is the use count alone.
variable_key_less_without_name(instrs, v, w) ==
    variable_use_count(instrs, v) > variable_use_count(instrs, w)

\* (-variable_use_counts[v], v) < (-variable_use_counts[w], w)
variable_key_less(instrs, v, w) ==
    \/ variable_use_count(instrs, v) > variable_use_count(instrs, w)
    \/ /\ variable_use_count(instrs, v) = variable_use_count(instrs, w)
       /\ name_less(v, w)

\* sorted(): x goes in front of the first element its key is less than.
\* less: the pairs <<x, y>> with key(x) < key(y).
insert_sorted(list, x, less) ==
    LET later == {i \in DOMAIN list : <<x, list[i]>> \in less}
        at == IF later = {} THEN Len(list) + 1 ELSE CHOOSE i \in later : \A j \in later : i <= j
    IN SubSeq(list, 1, at - 1) \o <<x>> \o SubSeq(list, at, Len(list))

RECURSIVE sorted(_, _)
\* sorted(list, key=...): a stable sort.
sorted(list, less) ==
    IF list = <<>> THEN <<>>
    ELSE insert_sorted(sorted(SubSeq(list, 1, Len(list) - 1), less), list[Len(list)], less)

\* variable_slots
variable_slots(instrs, names) ==
    sorted(names, {p \in Range(names) \X Range(names) : variable_key_less(instrs, p[1], p[2])})

\* The loop over the Lc instructions: '0' and '1' become Lz and Lo.
load_zero_and_one(instrs) ==
    [i \in DOMAIN instrs |->
        IF instrs[i].opcode = "Lc" /\ str(instrs[i].value) = <<"0">>
        THEN [instrs[i] EXCEPT !.opcode = "Lz", !.value = NoValue]
        ELSE IF instrs[i].opcode = "Lc" /\ str(instrs[i].value) = <<"1">>
        THEN [instrs[i] EXCEPT !.opcode = "Lo", !.value = NoValue]
        ELSE instrs[i]]

constant_use_count(instrs, c) ==
    Cardinality({i \in DOMAIN instrs : instrs[i].opcode = "Lc" /\ instrs[i].value = c})

RECURSIVE constant_keys(_, _)
\* constant_use_counts.keys(): the constants in the order they are first met.
constant_keys(instrs, seen) ==
    IF instrs = <<>> THEN seen
    ELSE constant_keys(Tail(instrs),
            IF Head(instrs).opcode = "Lc" /\ Head(instrs).value \notin Range(seen)
            THEN Append(seen, Head(instrs).value) ELSE seen)

\* (-constant_use_counts[c], c) < (-constant_use_counts[d], d), c and d strings
constant_key_less(instrs, c, d) ==
    \/ constant_use_count(instrs, c) > constant_use_count(instrs, d)
    \/ /\ constant_use_count(instrs, c) = constant_use_count(instrs, d)
       /\ str_less(str(c), str(d))

\* constant_slots
constant_slots(instrs) ==
    LET keys == constant_keys(instrs, <<>>)
    IN sorted(keys, {p \in Range(keys) \X Range(keys) : constant_key_less(instrs, p[1], p[2])})

\* IRInstruction.generate_code raises KeyError: the variable has no slot, or
\* no instruction carries the label.
KeyError(ins, vslots, label_positions) ==
    \/ ins.opcode \in {"Lv", "St"} /\ ins.name \notin Range(vslots)
    \/ ins.opcode \in Jumps /\ ins.name \notin DOMAIN label_positions

\* IRInstruction.generate_code: the linked instruction
link(ins, vslots, cslots, label_positions) ==
    Instr(ins.opcode,
          IF KeyError(ins, vslots, label_positions) THEN 0 ELSE
          IF ins.opcode \in {"Lv", "St"} THEN IndexOf(vslots, ins.name) - 1
          ELSE IF ins.opcode = "Lc" THEN IndexOf(cslots, ins.value) - 1
          ELSE IF ins.opcode \in Jumps THEN label_positions[ins.name] - 1
          ELSE 0)

\* The end of CodeGenerator.generate_code: the DSMAL program and the source
\* map, from the slots and the instructions.
generate_code_link(names, instrs, vslots, cslots, label_positions) ==
    IF \E i \in DOMAIN instrs : KeyError(instrs[i], vslots, label_positions)
    THEN [hung |-> FALSE, raised |-> TRUE, variable_names |-> names, instructions |-> instrs,
          program |-> DSMAL(<<>>, <<>>, <<>>), source_map |-> <<>>]
    ELSE [hung |-> FALSE, raised |-> FALSE, variable_names |-> names, instructions |-> instrs,
          program |-> DSMAL(vslots, cslots,
                            [i \in DOMAIN instrs |-> link(instrs[i], vslots, cslots, label_positions)]),
          source_map |-> [i \in DOMAIN instrs |-> instrs[i].line_number]]

\* CodeGenerator.generate_code after the Lc instructions are looked at.
generate_code_slots(names, vslots, instrs) ==
    generate_code_link(names, instrs, vslots, constant_slots(instrs), label_to_instruction(instrs))

\* CodeGenerator.generate_code after self._optimize().
generate_code_optimized(names, optimized) ==
    IF optimized.hung
    THEN [hung |-> TRUE, raised |-> FALSE, variable_names |-> names,
          instructions |-> optimized.instructions,
          program |-> DSMAL(<<>>, <<>>, <<>>), source_map |-> <<>>]
    ELSE generate_code_slots(names, variable_slots(optimized.instructions, names),
                             load_zero_and_one(optimized.instructions))

\* CodeGenerator(names, ...).generate_code(...), names the variable names as
\* they are presented.
generate_code(names, inits, sts) ==
    generate_code_optimized(names, optimize(generate_ir(inits, sts).instructions))

\* ------------------------------------------------------------ dsm.Machine

NoKwargs == [n \in {} |-> NoValue]

\* The value array `base` with the keyword arguments applied.
ApplyKwargs(names, base, kwargs) ==
    [i \in DOMAIN names |-> IF names[i] \in DOMAIN kwargs THEN Reduce(kwargs[names[i]]) ELSE base[i]]

\* Program.machine(**kwargs): the variable values of the new machine.
machine_values(names, kwargs) ==
    ApplyKwargs(names, [i \in DOMAIN names |-> DECIMAL_ZERO], kwargs)

\* A mutant of reset_values: reset starts from zeros instead of the baseline.
reset_values_from_zero(names, base, kwargs) ==
    ApplyKwargs(names, [i \in DOMAIN names |-> DECIMAL_ZERO], kwargs)

\* A mutant of reset_values: reset restores the baseline and drops the overrides.
reset_values_without_overrides(names, base, kwargs) == base

\* Machine.reset(**kwargs): the variable values after the call.
reset_values(names, base, kwargs) == ApplyKwargs(names, base, kwargs)

LimitError == "execution forcibly terminated after instructions"

OutOfBoundsError == "current execution location is out-of-bounds"

NoExecutionError == [msg |-> "", instruction |-> 0, opcode |-> "", detail |-> <<>>]

ExecutionError(msg, instruction, opcode, detail) ==
    [msg |-> msg, instruction |-> instruction, opcode |-> opcode, detail |-> detail]

DefaultIterator == [kind |-> "default", rest |-> <<>>]

Iterator(values) == [kind |-> "iter", rest |-> values]

\* The execution state a run starts from.
StartOfRun(values, iterator, ninstr) ==
    [status |-> "running", pointer |-> 0, stack |-> <<>>, executed |-> 0, variables |-> values,
     iterator |-> iterator, error |-> NoExecutionError,
     coverage |-> [i \in 1..ninstr |-> FALSE]]

Raise(x, msg, opcode, detail) ==
    [x EXCEPT !.status = "raised", !.error = ExecutionError(msg, x.pointer, opcode, detail)]

Top(x) == x.stack[Len(x.stack)]

Second(x) == x.stack[Len(x.stack) - 1]

\* The state after an instruction that pops `pops` operands, pushes the
\* values `pushes` and goes on at `next`.
Done(x, pops, pushes, next) ==
    [x EXCEPT !.stack = SubSeq(x.stack, 1, Len(x.stack) - pops) \o pushes,
              !.pointer = next,
              !.executed = @ + 1,
              !.coverage[x.pointer + 1] = TRUE]

\* The effect of the instruction ins, whose operands are on the stack.
\* r: the value the process-wide random source yields if it is asked.
Execute(prog, x, ins, r) ==
    LET op == ins.opcode
        n == ins.param
        next == x.pointer + 1
    IN CASE op = "Xx" -> [Done(x, 0, <<>>, x.pointer) EXCEPT !.status = "returned"]
         [] op = "Ju" -> Done(x, 0, <<>>, n)
         [] op = "Jn" -> Done(x, 1, <<>>, IF ~IsZero(Top(x)) THEN n ELSE next)
         [] op = "Jz" -> Done(x, 1, <<>>, IF IsZero(Top(x)) THEN n ELSE next)
         [] op = "Lc" -> Done(x, 0, <<Reduce(prog.constants[n + 1])>>, next)
         [] op = "Lv" -> Done(x, 0, <<x.variables[n + 1]>>, next)
         [] op = "Lr" ->
                IF x.iterator.kind = "default" THEN Done(x, 0, <<Reduce(r)>>, next)
                ELSE IF x.iterator.rest = <<>>
                THEN Raise(x, "random_number_iterator ran out of values", op, <<>>)
                ELSE [Done(x, 0, <<Reduce(Head(x.iterator.rest))>>, next)
                        EXCEPT !.iterator.rest = Tail(@)]
         [] op = "Lz" -> Done(x, 0, <<DECIMAL_ZERO>>, next)
         [] op = "Lo" -> Done(x, 0, <<DECIMAL_ONE>>, next)
         [] op = "St" -> [Done(x, 1, <<>>, next) EXCEPT !.variables[n + 1] = Top(x)]
         [] op = "Cp" -> Done(x, 0, <<Top(x)>>, next)
         [] op = "Pp" -> Done(x, 1, <<>>, next)
         [] op = "Nt" -> Done(x, 1, <<Bool(IsZero(Top(x)))>>, next)
         [] op = "Ng" -> Done(x, 1, <<Reduce(DecNeg(Top(x)))>>, next)
         [] op = "Ab" -> Done(x, 1, <<<<0, Top(x)[2], Top(x)[3]>>>>, next)
         [] op = "Cl" -> Done(x, 1, <<Reduce(Dec(DecCeiling(Top(x))))>>, next)
         [] op = "Fl" -> Done(x, 1, <<Reduce(Dec(DecFloor(Top(x))))>>, next)
         [] op = "Rd" -> Done(x, 1, <<Reduce(Dec(DecRound(Top(x))))>>, next)
         [] op = "Eq" -> Done(x, 2, <<Bool(DecCmp(Second(x), Top(x)) = 0)>>, next)
         [] op = "Ne" -> Done(x, 2, <<Bool(DecCmp(Second(x), Top(x)) # 0)>>, next)
         [] op = "Gt" -> Done(x, 2, <<Bool(DecCmp(Second(x), Top(x)) > 0)>>, next)
         [] op = "Ge" -> Done(x, 2, <<Bool(DecCmp(Second(x), Top(x)) >= 0)>>, next)
         [] op = "Ad" -> Done(x, 2, <<Reduce(DecAdd(Second(x), Top(x)))>>, next)
         [] op = "Sb" -> Done(x, 2, <<Reduce(DecSub(Second(x), Top(x)))>>, next)
         [] op = "Ml" -> Done(x, 2, <<Reduce(DecMul(Second(x), Top(x)))>>, next)
         [] op = "Dv" ->
                IF IsZero(Top(x)) THEN Raise(x, "illegal Dv", op, <<>>)
                ELSE Done(x, 2, <<Reduce(DecDiv(Second(x), Top(x)))>>, next)
         [] op = "Mn" -> Done(x, 2, <<IF DecCmp(Second(x), Top(x)) <= 0 THEN Second(x) ELSE Top(x)>>, next)
         [] op = "Mx" -> Done(x, 2, <<IF DecCmp(Second(x), Top(x)) >= 0 THEN Second(x) ELSE Top(x)>>, next)
         [] OTHER -> Raise(x, "opcode outside the model", op, <<>>)

\* A mutant of limit_reached: the limit is tested one instruction late.
limit_reached_late(limit, count) == limit # <<>> /\ count > limit[1]

\* The instruction limit is set and used up.
limit_reached(limit, count) == limit # <<>> /\ count >= limit[1]

\* The execution pointer does not point at an instruction.
out_of_bounds(prog, location) == location >= Len(prog.instructions)

\* One step of the interpreter loop of Machine.run on the execution state x.
StepFn(prog, limit, x, r) ==
    IF out_of_bounds(prog, x.pointer)
    THEN Raise(x, OutOfBoundsError, "", <<x.pointer>>)
    ELSE IF limit_reached(limit, x.executed)
    THEN Raise(x, LimitError, "", limit)
    ELSE LET ins == prog.instructions[x.pointer + 1]
         IN IF Len(x.stack) < Arity(ins.opcode)
            THEN Raise(x, "instruction requires operand(s), but the stack only has",
                       ins.opcode, <<Arity(ins.opcode), Len(x.stack)>>)
            ELSE Execute(prog, x, ins, r)

\* -------------------------------------------------------- Machine actions

NoRun ==
    [variables |-> <<>>, iterator |-> DefaultIterator, limit |-> <<>>, after |-> "", call |-> ""]

MachineIdle ==
    /\ dsmal = DSMAL(<<>>, <<>>, <<>>)
    /\ loaded = "no"
    /\ mstatus = "none"
    /\ baseline = <<>>
    /\ variables = <<>>
    /\ instruction_limit = <<>>
    /\ random_number_iterator = DefaultIterator
    /\ pointer = 0
    /\ stack = <<>>
    /\ executed = 0
    /\ execution_error = NoExecutionError
    /\ coverage = <<>>
    /\ last_call = [op |-> "", kwargs |-> NoKwargs]
    /\ created_with = NoKwargs
    /\ run_start = NoRun
    /\ drawn = <<>>
    /\ remembered = <<>>

\* No compilation is going on.
CompilerIdle ==
    /\ cstage = ""
    /\ keep_optimizing = FALSE
    /\ optimization_passes = 0
    /\ presented = <<>>
    /\ instructions = <<>>
    /\ source_map = <<>>

execVars == <<pointer, stack, executed, execution_error, coverage>>

ghostVars == <<last_call, created_with, run_start, drawn, remembered>>

Idle == mstatus \in {"ready", "returned", "raised"}

\* dsm.Program(dsmal)
NewProgram ==
    /\ loaded = "no"
    /\ dsmal.instructions # <<>> \/ dsmal.variables # <<>>
    /\ loaded' = IF InvalidProgramError(dsmal) = "" THEN "yes" ELSE "invalid"
    /\ run_start' = NoRun
    /\ drawn' = <<>>
    /\ UNCHANGED <<dsmal, mstatus, baseline, variables, instruction_limit,
                   random_number_iterator, execVars, ghostVars>>

\* Program.machine(**kwargs)
NewMachine(kwargs) ==
    /\ loaded = "yes"
    /\ mstatus = "none"
    /\ DOMAIN kwargs \subseteq Range(dsmal.variables)
    /\ mstatus' = "ready"
    /\ baseline' = machine_values(dsmal.variables, kwargs)
    /\ variables' = machine_values(dsmal.variables, kwargs)
    /\ coverage' = [i \in DOMAIN dsmal.instructions |-> FALSE]
    /\ created_with' = kwargs
    /\ last_call' = [op |-> "machine", kwargs |-> kwargs]
    /\ run_start' = NoRun
    /\ drawn' = <<>>
    /\ UNCHANGED <<dsmal, loaded, instruction_limit, random_number_iterator,
                   pointer, stack, executed, execution_error, run_start, drawn, remembered>>

\* Machine.reset(**kwargs)
Reset(kwargs) ==
    /\ Idle
    /\ DOMAIN kwargs \subseteq Range(dsmal.variables)
    /\ variables' = reset_values(dsmal.variables, baseline, kwargs)
    /\ mstatus' = "ready"
    /\ last_call' = [op |-> "reset", kwargs |-> kwargs]
    /\ run_start' = NoRun
    /\ drawn' = <<>>
    /\ UNCHANGED <<dsmal, loaded, baseline, instruction_limit, random_number_iterator,
                   execVars, created_with, remembered>>

\* Machine.instruction_limit = n
SetInstructionLimit(n) ==
    /\ Idle
    /\ instruction_limit # <<n>>
    /\ instruction_limit' = <<n>>
    /\ mstatus' = "ready"
    /\ last_call' = [op |-> "instruction_limit", kwargs |-> NoKwargs]
    /\ run_start' = NoRun
    /\ drawn' = <<>>
    /\ UNCHANGED <<dsmal, loaded, baseline, variables, random_number_iterator,
                   execVars, created_with, remembered>>

\* Machine.random_number_iterator = iter(values)
SetRandomNumberIterator(values) ==
    /\ Idle
    /\ random_number_iterator # Iterator(values)
    /\ random_number_iterator' = Iterator(values)
    /\ mstatus' = "ready"
    /\ last_call' = [op |-> "random_number_iterator", kwargs |-> NoKwargs]
    /\ run_start' = NoRun
    /\ drawn' = <<>>
    /\ UNCHANGED <<dsmal, loaded, baseline, variables, instruction_limit,
                   execVars, created_with, remembered>>

\* The execution state of the machine, as StepFn takes it.
ExecState ==
    [status |-> mstatus, pointer |-> pointer, stack |-> stack, executed |-> executed,
     variables |-> variables, iterator |-> random_number_iterator,
     error |-> execution_error, coverage |-> coverage]

\* A mutant of run_entry: the stack of the previous run is kept.
run_entry_keeping_stack(x) ==
    [StartOfRun(x.variables, x.iterator, Len(x.coverage)) EXCEPT !.stack = x.stack]

\* A mutant of run_entry: the instruction count of the previous run is kept.
run_entry_keeping_count(x) ==
    [StartOfRun(x.variables, x.iterator, Len(x.coverage)) EXCEPT !.executed = x.executed]

\* Machine.run(), on entry: the pointer, stack, count and coverage start afresh.
run_entry(x) == StartOfRun(x.variables, x.iterator, Len(x.coverage))

\* A mutant of run_with_coverage_entry: the coverage buffer of the previous
\* run is kept.
run_with_coverage_entry_keeping_coverage(x) ==
    [StartOfRun(x.variables, x.iterator, Len(x.coverage)) EXCEPT !.coverage = x.coverage]

\* Machine.run_with_coverage(), on entry: as run, with a cleared coverage buffer.
run_with_coverage_entry(x) == StartOfRun(x.variables, x.iterator, Len(x.coverage))

\* A run begins in execution state x, by the call `call`.
BeginRun(x, call) ==
    /\ Idle
    /\ mstatus' = "running"
    /\ pointer' = x.pointer
    /\ stack' = x.stack
    /\ executed' = x.executed
    /\ execution_error' = x.error
    /\ coverage' = x.coverage
    /\ run_start' = [variables |-> variables, iterator |-> random_number_iterator,
                     limit |-> instruction_limit, after |-> last_call.op, call |-> call]
    /\ drawn' = <<>>
    /\ last_call' = [op |-> call, kwargs |-> NoKwargs]
    /\ UNCHANGED <<dsmal, loaded, baseline, variables, instruction_limit,
                   random_number_iterator, created_with, remembered>>

\* Machine.run() is called.
Run == BeginRun(run_entry(ExecState), "run")

\* Machine.run_with_coverage() is called.
RunWithCoverage == BeginRun(run_with_coverage_entry(ExecState), "run_with_coverage")

\* What the call that started the run returns when the run ends with Xx: the
\* number of instructions executed, or the coverage as a tuple.
run_result ==
    IF last_call.op = "run_with_coverage" THEN [coverage |-> coverage]
    ELSE [instruction_count |-> executed]

\* What the process-wide random source may yield.
RandomNumbers == {DECIMAL_ZERO, <<0, 5, -1>>}

\* The next step of the run asks the process-wide random source for a value.
Draws(prog, limit, x) ==
    /\ x.status = "running"
    /\ ~out_of_bounds(prog, x.pointer)
    /\ ~limit_reached(limit, x.executed)
    /\ prog.instructions[x.pointer + 1].opcode = "Lr"
    /\ x.iterator.kind = "default"

\* The summary of the run that ended in execution state x.
RunSummary(start, rs, x) ==
    [start |-> start, drawn |-> rs, status |-> x.status, variables |-> x.variables,
     returned |-> IF x.status = "returned" THEN x.executed ELSE 0, error |-> x.error]

\* The interpreter loop of the run executes (or fails to execute) one instruction.
StepUpTo(max_executed) ==
    /\ mstatus = "running"
    /\ instruction_limit # <<>> \/ executed < max_executed
    /\ \E r \in IF Draws(dsmal, instruction_limit, ExecState) THEN RandomNumbers
                ELSE {DECIMAL_ZERO} :
         LET x == StepFn(dsmal, instruction_limit, ExecState, r)
             rs == IF Draws(dsmal, instruction_limit, ExecState) THEN Append(drawn, r) ELSE drawn
         IN /\ mstatus' = x.status
            /\ pointer' = x.pointer
            /\ stack' = x.stack
            /\ executed' = x.executed
            /\ variables' = x.variables
            /\ random_number_iterator' = x.iterator
            /\ execution_error' = x.error
            /\ coverage' = x.coverage
            /\ drawn' = rs
            /\ \/ remembered' = remembered
               \/ /\ x.status # "running"
                  /\ remembered = <<>>
                  /\ remembered' = <<RunSummary(run_start, rs, x)>>
    /\ UNCHANGED <<dsmal, loaded, baseline, instruction_limit, last_call, created_with, run_start>>

\* A step of a run of at most MaxExecuted instructions, or of a run that has
\* an instruction limit.
Step == StepUpTo(MaxExecuted)

\* -------------------------------------------------------------- MachineSpec
\* Hand-written DSMAL programs, as tests/test_dsm.py uses them, each with the
\* keyword arguments its machines are created and reset with.

Kw1(n, v) == n :> Dec(v)

Kw2(n1, v1, n2, v2) == (n1 :> Dec(v1)) @@ (n2 :> Dec(v2))

Kw3(n1, v1, n2, v2, n3, v3) == (n1 :> Dec(v1)) @@ (n2 :> Dec(v2)) @@ (n3 :> Dec(v3))

Input(d, kwargs, iterators) == [dsmal |-> d, kwargs |-> kwargs, iterators |-> iterators]

MachineInputs ==
    { \* test_Jz: 'a|b;42;Lv0Jz4Lc0St1Xx'
      Input(DSMAL(<<"a", "b">>, <<Dec(42)>>,
                  <<Instr("Lv", 0), Instr("Jz", 4), Instr("Lc", 0), Instr("St", 1), Instr("Xx", 0)>>),
            {NoKwargs, Kw1("a", 1), Kw1("a", 0)}, {}),
      \* test_infinite_loop: ';;Ju0'
      Input(DSMAL(<<>>, <<>>, <<Instr("Ju", 0)>>), {NoKwargs}, {}),
      \* test_execution_out_of_bounds: ';;Ju2Xx' and ';123;Lc0'
      Input(DSMAL(<<>>, <<>>, <<Instr("Ju", 2), Instr("Xx", 0)>>), {NoKwargs}, {}),
      Input(DSMAL(<<>>, <<Dec(123)>>, <<Instr("Lc", 0)>>), {NoKwargs}, {}),
      \* test_coverage: 'a|b|multiply|c;;Lv0Lv1Lv2Jn6AdJu7MlSt3Xx'
      Input(DSMAL(<<"a", "b", "multiply", "c">>, <<>>,
                  <<Instr("Lv", 0), Instr("Lv", 1), Instr("Lv", 2), Instr("Jn", 6), Instr("Ad", 0),
                    Instr("Ju", 7), Instr("Ml", 0), Instr("St", 3), Instr("Xx", 0)>>),
            {Kw3("a", 3, "b", 5, "multiply", 0), Kw1("multiply", 1), NoKwargs}, {}),
      \* test_Dv: ';5|0;Lc0Lc1DvXx' with the divisor in a variable
      Input(DSMAL(<<"a", "q">>, <<Dec(5)>>,
                  <<Instr("Lc", 0), Instr("Lv", 0), Instr("Dv", 0), Instr("St", 1), Instr("Xx", 0)>>),
            {NoKwargs, Kw1("a", 5), Kw1("a", 0)}, {}),
      \* a value is left on the stack on one path, St finds none on the other
      Input(DSMAL(<<"a", "b">>, <<>>,
                  <<Instr("Lv", 0), Instr("Jn", 4), Instr("Lo", 0), Instr("Xx", 0),
                    Instr("St", 1), Instr("Xx", 0)>>),
            {NoKwargs, Kw1("a", 1)}, {}),
      \* a run changes its own input: n = !n
      Input(DSMAL(<<"n">>, <<>>,
                  <<Instr("Lv", 0), Instr("Nt", 0), Instr("St", 0), Instr("Xx", 0)>>),
            {NoKwargs, Kw1("n", 1)}, {}),
      \* test_Lr: 'a|b;;LrSt0LrSt1Xx', with one of the two draws
      Input(DSMAL(<<"a">>, <<>>, <<Instr("Lr", 0), Instr("St", 0), Instr("Xx", 0)>>),
            {NoKwargs}, {<<Dec(1), Dec(0)>>}),
      \* test_invalid_variable_slot: ';;Lv0Xx'
      Input(DSMAL(<<>>, <<>>, <<Instr("Lv", 0), Instr("Xx", 0)>>), {NoKwargs}, {})
    }

\* The input the model was started on.
TheInput == CHOOSE i \in MachineInputs : i.dsmal = dsmal

\* No Parser is at work.
ParserIdle == ParserInit({}, NoKwargs)

\* Before dsm.Program is called on one of the inputs.
ProgramNotLoaded ==
    /\ ParserIdle
    /\ CompilerIdle
    /\ \E i \in MachineInputs : dsmal = i.dsmal
    /\ loaded = "no"
    /\ mstatus = "none"
    /\ baseline = <<>>
    /\ variables = <<>>
    /\ instruction_limit = <<>>
    /\ random_number_iterator = DefaultIterator
    /\ pointer = 0
    /\ stack = <<>>
    /\ executed = 0
    /\ execution_error = NoExecutionError
    /\ coverage = <<>>
    /\ last_call = [op |-> "", kwargs |-> NoKwargs]
    /\ created_with = NoKwargs
    /\ run_start = NoRun
    /\ drawn = <<>>
    /\ remembered = <<>>
    /\ ReportIdle

MachineInit == ProgramNotLoaded /\ FleetIdle

MachineCreate == \E kwargs \in TheInput.kwargs : NewMachine(kwargs)

MachineReset == \E kwargs \in TheInput.kwargs : Reset(kwargs)

MachineSetLimit == \E n \in 1..MaxLimit : SetInstructionLimit(n)

MachineSetIterator == \E values \in TheInput.iterators : SetRandomNumberIterator(values)

MachineNext ==
    \/ (NewProgram /\ UNCHANGED <<parserVars, compilerVars, reportVars, fleetVars>>)
    \/ (MachineCreate /\ UNCHANGED <<parserVars, compilerVars, reportVars, fleetVars>>)
    \/ (MachineReset /\ UNCHANGED <<parserVars, compilerVars, reportVars, fleetVars>>)
    \/ (MachineSetLimit /\ UNCHANGED <<parserVars, compilerVars, reportVars, fleetVars>>)
    \/ (MachineSetIterator /\ UNCHANGED <<parserVars, compilerVars, reportVars, fleetVars>>)
    \/ (Run /\ UNCHANGED <<parserVars, compilerVars, reportVars, fleetVars>>)
    \/ (Step /\ UNCHANGED <<parserVars, compilerVars, reportVars, fleetVars>>)

MachineSpec == MachineInit /\ [][MachineNext]_vars

\* Machine.run is a loop that goes on to the next instruction until it returns or raises.
MachineFairSpec == MachineSpec /\ WF_vars(Step /\ UNCHANGED <<parserVars, compilerVars, reportVars, fleetVars>>)

\* ---------------------------------------------------------- RunCoverageSpec
\* run() and run_with_coverage() on the programs that have variables.

RunCoverageInputs == {i \in MachineInputs : i.dsmal.variables # <<>>}

RunCoverageInit ==
    /\ MachineInit
    /\ \E i \in RunCoverageInputs : dsmal = i.dsmal

RunCoverageNext ==
    \/ (NewProgram /\ UNCHANGED <<parserVars, compilerVars, reportVars, fleetVars>>)
    \/ (MachineCreate /\ UNCHANGED <<parserVars, compilerVars, reportVars, fleetVars>>)
    \/ (MachineReset /\ UNCHANGED <<parserVars, compilerVars, reportVars, fleetVars>>)
    \/ (MachineSetIterator /\ UNCHANGED <<parserVars, compilerVars, reportVars, fleetVars>>)
    \/ (Run /\ UNCHANGED <<parserVars, compilerVars, reportVars, fleetVars>>)
    \/ (RunWithCoverage /\ UNCHANGED <<parserVars, compilerVars, reportVars, fleetVars>>)
    \/ (Step /\ UNCHANGED <<parserVars, compilerVars, reportVars, fleetVars>>)

RunCoverageSpec == RunCoverageInit /\ [][RunCoverageNext]_vars

\* ---------------------------------------------------------------- FleetSpec
\* Two Machines of one Program, their calls and the steps of their runs
\* interleaved.  A Machine runs once it has a random_number_iterator of its own.

Machines == {1, 2}

NoMachine ==
    [exec |-> [status |-> "none", pointer |-> 0, stack |-> <<>>, executed |-> 0,
               variables |-> <<>>, iterator |-> DefaultIterator, error |-> NoExecutionError,
               coverage |-> <<>>],
     baseline |-> <<>>]

\* Program.machine(**kwargs): the new Machine.
new_machine(prog, kwargs) ==
    [exec |-> [status |-> "ready", pointer |-> 0, stack |-> <<>>, executed |-> 0,
               variables |-> machine_values(prog.variables, kwargs),
               iterator |-> DefaultIterator, error |-> NoExecutionError,
               coverage |-> [i \in DOMAIN prog.instructions |-> FALSE]],
     baseline |-> machine_values(prog.variables, kwargs)]

\* machine.reset(**kwargs)
machine_reset(prog, mc, kwargs) ==
    [mc EXCEPT !.exec.variables = reset_values(prog.variables, mc.baseline, kwargs),
               !.exec.status = "ready"]

\* machine[name] = value
machine_setitem(prog, mc, name, value) ==
    [mc EXCEPT !.exec.variables[IndexOf(prog.variables, name)] = Reduce(value),
               !.exec.status = "ready"]

\* machine.random_number_iterator = iter(values)
machine_set_iterator(mc, values) ==
    [mc EXCEPT !.exec.iterator = Iterator(values), !.exec.status = "ready"]

\* machine.run(), on entry
machine_run(mc) == [mc EXCEPT !.exec = run_entry(mc.exec)]

\* One turn of the interpreter loop of machine.run().
machine_step(prog, mc) == [mc EXCEPT !.exec = StepFn(prog, <<>>, mc.exec, DECIMAL_ZERO)]

\* A mutant of store: the variable values are kept in the Program, one array
\* for all its Machines.
store_values_in_program(ms, m, mc) ==
    [k \in DOMAIN ms |-> IF k = m THEN mc ELSE [ms[k] EXCEPT !.exec.variables = mc.exec.variables]]

\* The Machines after a call on Machine m left it as mc: a Machine owns its
\* variable values, stack and coverage buffer.
store(ms, m, mc) == [ms EXCEPT ![m] = mc]

\* A call on Machine m, which leaves it as mc, and would leave it as alone had
\* it been the only Machine.
FleetCall(m, mc, alone) ==
    /\ machines' = store(machines, m, mc)
    /\ solo' = [solo EXCEPT ![m] = alone]
    /\ UNCHANGED <<parserVars, machineVars, compilerVars, reportVars>>

FleetIsIdle(m) == machines[m].exec.status \in {"ready", "returned", "raised"}

FleetInputs == {i \in MachineInputs : Len(i.dsmal.variables) \in 1..2}

FleetInit ==
    /\ ProgramNotLoaded
    /\ \E i \in FleetInputs : dsmal = i.dsmal
    /\ machines = [m \in Machines |-> NoMachine]
    /\ solo = [m \in Machines |-> NoMachine]

FleetMachine(m) ==
    /\ loaded = "yes"
    /\ machines[m].exec.status = "none"
    /\ \E kwargs \in TheInput.kwargs :
          FleetCall(m, new_machine(dsmal, kwargs), new_machine(dsmal, kwargs))

FleetReset(m) ==
    /\ FleetIsIdle(m)
    /\ \E kwargs \in TheInput.kwargs :
          FleetCall(m, machine_reset(dsmal, machines[m], kwargs),
                    machine_reset(dsmal, solo[m], kwargs))

FleetSetItem(m) ==
    /\ FleetIsIdle(m)
    /\ \E name \in Range(dsmal.variables), value \in {DECIMAL_ZERO, DECIMAL_ONE} :
          FleetCall(m, machine_setitem(dsmal, machines[m], name, value),
                    machine_setitem(dsmal, solo[m], name, value))

FleetSetIterator(m) ==
    /\ FleetIsIdle(m)
    /\ \E values \in {<<DECIMAL_ONE, DECIMAL_ZERO>>, <<DECIMAL_ZERO>>} :
          FleetCall(m, machine_set_iterator(machines[m], values),
                    machine_set_iterator(solo[m], values))

FleetRun(m) ==
    /\ FleetIsIdle(m)
    /\ machines[m].exec.iterator.kind = "iter"
    /\ FleetCall(m, machine_run(machines[m]), machine_run(solo[m]))

FleetStep(m) ==
    /\ machines[m].exec.status = "running"
    /\ FleetCall(m, machine_step(dsmal, machines[m]), machine_step(dsmal, solo[m]))

FleetNext ==
    \/ (NewProgram /\ UNCHANGED <<parserVars, compilerVars, reportVars, fleetVars>>)
    \/ \E m \in Machines : FleetMachine(m)
    \/ \E m \in Machines : FleetReset(m)
    \/ \E m \in Machines : FleetSetItem(m)
    \/ \E m \in Machines : FleetSetIterator(m)
    \/ \E m \in Machines : FleetRun(m)
    \/ \E m \in Machines : FleetStep(m)

FleetSpec == FleetInit /\ [][FleetNext]_vars

\* ------------------------------------------------------------- CompileSpec
\* compile(source_code, variable_names, constants): Parser.parse, AST.optimize,
\* CodeGenerator.generate_code and dsm.Program, then a run of the program.

Num(n) == Literal(Dec(n))

\* The logical lines the source texts are made of.
CompileStatements ==
    { Stmt("let", "t", <<Num(0)>>),
      Stmt("let", "t", <<Identifier("a")>>),
      Stmt("label", "@a", <<>>),
      Stmt("label", "@b", <<>>),
      Stmt("=>", "@b", <<>>),
      Stmt("cond", "@b", <<Identifier("a")>>),
      Stmt("assign", "a", <<Identifier("b")>>),
      Stmt("assign", "a", <<BinOp(Identifier("b"), "+", Identifier("b"))>>),
      Stmt("assign", "a", <<BinOp(Num(1), "/", Num(0))>>),
      Stmt("assign", "a", <<BinOp(Num(5), "/", Num(0))>>),
      Stmt("assign", "a", <<BinOp(Num(1), "/", Identifier("t"))>>),
      Stmt("assign", "b", <<BinOp(Identifier("t"), "+", Identifier("t"))>>),
      Stmt("assign", "t", <<Identifier("b")>>) }

CompileInit ==
    /\ ParserInit({"a", "b"}, NoKwargs)
    /\ MachineIdle
    /\ cstage = "compiling"
    /\ keep_optimizing = TRUE
    /\ optimization_passes = 0
    /\ presented = <<>>
    /\ instructions = <<>>
    /\ source_map = <<>>
    /\ ReportIdle
    /\ FleetIdle

CompileStatement ==
    /\ cstage = "compiling"
    /\ line_number <= MaxLines
    /\ \E stmt \in CompileStatements : ParseStatement(stmt)
    /\ UNCHANGED <<machineVars, compilerVars, reportVars, fleetVars>>

CompileEndOfInput ==
    /\ cstage = "compiling"
    /\ EndOfInput
    /\ UNCHANGED <<machineVars, compilerVars, reportVars, fleetVars>>

\* A mutant of the loop condition: no bound on the passes.
optimizing_without_bound == keep_optimizing

\* while keep_optimizing and optimization_passes < 10
optimizing == keep_optimizing /\ optimization_passes < MaxOptimizationPasses

\* One turn of the loop of AST.optimize.
OptimizationPass ==
    /\ cstage = "compiling"
    /\ pstatus = "ok"
    /\ optimizing
    /\ LET ast == optimization_pass(AST(declared_variable_names, initializations, states, FALSE))
       IN /\ declared_variable_names' = ast.declared_variable_names
          /\ initializations' = ast.initializations
          /\ states' = ast.states
          /\ keep_optimizing' = ast.keep_optimizing
    /\ optimization_passes' = optimization_passes + 1
    /\ UNCHANGED <<source, variable_names, constants, pstatus, perror, current_state_label,
                   current_state_actions, line_number, machineVars, cstage, presented,
                   instructions, source_map, reportVars, fleetVars>>

\* The orders in which the elements of a set may be listed.
Lists(S) == {l \in [1..Cardinality(S) -> S] : Range(l) = S}

\* CodeGenerator(names, ...).generate_code(...) and dsm.Program(dsmal), the end
\* of compile, names being one of `orders`.
GenerateCodeIn(orders) ==
    /\ cstage = "compiling"
    /\ pstatus = "ok"
    /\ ~optimizing
    /\ \E code \in {generate_code(names, initializations, states) : names \in orders} :
         /\ presented' = code.variable_names
         /\ instructions' = code.instructions
         /\ source_map' = code.source_map
         /\ dsmal' = code.program
         /\ cstage' = IF code.hung THEN "hung" ELSE IF code.raised THEN "raised" ELSE "done"
         /\ loaded' = IF code.hung \/ code.raised THEN "no"
                      ELSE IF InvalidProgramError(code.program) = "" THEN "yes" ELSE "invalid"
    /\ UNCHANGED <<parserVars, keep_optimizing, optimization_passes, mstatus, baseline, variables,
                   instruction_limit, random_number_iterator, execVars, ghostVars, reportVars, fleetVars>>

\* CodeGenerator(list(variable_names) + list(declared_variable_names), ...)
\* .generate_code(...): the names of a set are listed in any order.
GenerateCode ==
    GenerateCodeIn({l1 \o l2 : l1 \in Lists(variable_names), l2 \in Lists(declared_variable_names)})

CompileNext ==
    \/ CompileStatement
    \/ CompileEndOfInput
    \/ OptimizationPass
    \/ GenerateCode
    \/ (NewMachine(NoKwargs) /\ UNCHANGED <<parserVars, compilerVars, reportVars, fleetVars>>)
    \/ (Run /\ UNCHANGED <<parserVars, compilerVars, reportVars, fleetVars>>)
    \/ (Step /\ UNCHANGED <<parserVars, compilerVars, reportVars, fleetVars>>)

CompileSpec == CompileInit /\ [][CompileNext]_vars

\* -------------------------------------------------------------- CodegenSpec
\* compile on texts of up to three states, which are empty, end open or end
\* with a branch, and the runs of the programs it produces.

MaxStateLines == 7

\* The labels, in the order the texts define them.
StateLabels == <<"@a", "@b", "@c">>

\* The lines a state is made of.
StateActions ==
    { Stmt("=>", "@b", <<>>),
      Stmt("=>", "@c", <<>>),
      Stmt("cond", "@b", <<Identifier("a")>>),
      Stmt("cond", "@c", <<Identifier("a")>>),
      Stmt("assign", "a", <<Identifier("b")>>) }

\* The states the text has defined or begun.
defined_states == Len(states) + (IF current_state_label = "" THEN 0 ELSE 1)

\* The line that begins the next state, if the text may have one more.
next_state_line ==
    IF defined_states < Len(StateLabels)
    THEN {Stmt("label", StateLabels[defined_states + 1], <<>>)} ELSE {}

\* Parser.parse reads one more line: an action of `actions` or the next label.
CompileLine(actions, max_lines) ==
    /\ cstage = "compiling"
    /\ line_number <= max_lines
    /\ \E stmt \in actions \cup next_state_line : ParseStatement(stmt)
    /\ UNCHANGED <<machineVars, compilerVars, reportVars, fleetVars>>

CodegenInit == CompileInit

CodegenStatement == CompileLine(StateActions, MaxStateLines)

\* The keyword arguments the machines of the compiled programs are created with.
CodegenKwargs == {NoKwargs, Kw1("a", 1)}

CodegenMachine == \E kwargs \in CodegenKwargs : NewMachine(kwargs)

CodegenNext ==
    \/ CodegenStatement
    \/ CompileEndOfInput
    \/ OptimizationPass
    \/ GenerateCode
    \/ (CodegenMachine /\ UNCHANGED <<parserVars, compilerVars, reportVars, fleetVars>>)
    \/ (Run /\ UNCHANGED <<parserVars, compilerVars, reportVars, fleetVars>>)
    \/ (Step /\ UNCHANGED <<parserVars, compilerVars, reportVars, fleetVars>>)

CodegenSpec == CodegenInit /\ [][CodegenNext]_vars

\* --------------------------------------------------------------- EffectSpec
\* compile on texts of one state, whose statement holds an expression that
\* does something when it is evaluated (it assigns, draws a random number or
\* divides), and the runs of the programs it produces.

\* The statements a state may have: the bound of EffectSpec, FoldSpec,
\* RangeSpec and LogicSpec.
MaxActions == 1

\* The instructions a run of these programs may execute.
MaxRunLength == 30

\* A step of such a run.
LongStep == StepUpTo(MaxRunLength)

\* The names, each set in the order of NameOrder.
Alphabetical(names) == CHOOSE l \in Lists(names) : \A i, j \in DOMAIN l : i < j => name_less(l[i], l[j])

\* compile(source_code, {a, b, c}, consts), before the first line is read.
ExprInit(consts) ==
    /\ ParserInit({"a", "b", "c"}, consts)
    /\ MachineIdle
    /\ cstage = "compiling"
    /\ keep_optimizing = TRUE
    /\ optimization_passes = 0
    /\ presented = <<>>
    /\ instructions = <<>>
    /\ source_map = <<>>
    /\ ReportIdle
    /\ FleetIdle

\* The lines that may come next in a text `lets`, @a:, up to max_actions of
\* `actions`, @b:.
next_line(lets, actions, max_actions) ==
    IF current_state_label = ""
    THEN {l \in lets : l.name \notin declared_variable_names} \cup {Stmt("label", "@a", <<>>)}
    ELSE IF current_state_label = "@a"
    THEN (IF Len(current_state_actions) < max_actions THEN actions ELSE {})
         \cup {Stmt("label", "@b", <<>>)}
    ELSE {}

\* Parser.parse reads one more line of such a text.
ExprLine(lets, actions, max_actions) ==
    /\ cstage = "compiling"
    /\ \E stmt \in next_line(lets, actions, max_actions) : ParseStatement(stmt)
    /\ UNCHANGED <<machineVars, compilerVars, reportVars, fleetVars>>

\* The end of compile, the names listed in one order.
ExprGenerateCode ==
    GenerateCodeIn({Alphabetical(variable_names) \o Alphabetical(declared_variable_names)})

BOverC == BinOp(Identifier("b"), "/", Identifier("c"))

EffectActions ==
    { \* (a = b) + 1 => @b
      Stmt("cond", "@b", <<BinOp(Assignment("a", Identifier("b"), 0), "+", Num(1))>>),
      \* !(a = b) => @b
      Stmt("cond", "@b", <<UnOp("!", Assignment("a", Identifier("b"), 0))>>),
      \* b ? a = 1 : 2 => @b
      Stmt("cond", "@b", <<TerOp(Identifier("b"), Assignment("a", Num(1), 0), Num(2))>>),
      \* b => @b
      Stmt("cond", "@b", <<Identifier("b")>>),
      \* a = random! || 1
      Stmt("assign", "a", <<Infix(RandomValue, "||", Num(1))>>),
      \* a = b / c || 1
      Stmt("assign", "a", <<Infix(BOverC, "||", Num(1))>>),
      \* a = 0 && b / c
      Stmt("assign", "a", <<Infix(Num(0), "&&", BOverC)>>),
      \* a = 1 in {b / c, 1}
      Stmt("assign", "a", <<SetMembership(Num(1), <<BOverC, Num(1)>>)>>),
      \* a = 5 in [b / c, 3]
      Stmt("assign", "a", <<RangeMembership(Num(5), BOverC, Num(3), TRUE, TRUE)>>),
      \* a = 1 ? b : b / c
      Stmt("assign", "a", <<TerOp(Num(1), Identifier("b"), BOverC)>>),
      \* a = b + random!
      Stmt("assign", "a", <<BinOp(Identifier("b"), "+", RandomValue)>>),
      \* a = MAX(b, c, 1)
      Stmt("assign", "a", <<FunctionCall("MAX", <<Identifier("b"), Identifier("c"), Num(1)>>)>>),
      \* a = b in {1, c}
      Stmt("assign", "a", <<SetMembership(Identifier("b"), <<Num(1), Identifier("c")>>)>>),
      \* a = b ? c : 2
      Stmt("assign", "a", <<TerOp(Identifier("b"), Identifier("c"), Num(2))>>) }

EffectInit == ExprInit(NoKwargs)

EffectStatement == ExprLine({}, EffectActions, MaxActions)

\* The keyword arguments the machines are created with.
EffectKwargs == {NoKwargs, Kw1("b", 1), Kw1("c", 1), Kw2("b", 1, "c", 1)}

EffectMachine == \E kwargs \in EffectKwargs : NewMachine(kwargs)

EffectNext ==
    \/ EffectStatement
    \/ CompileEndOfInput
    \/ OptimizationPass
    \/ ExprGenerateCode
    \/ (EffectMachine /\ UNCHANGED <<parserVars, compilerVars, reportVars, fleetVars>>)
    \/ (Run /\ UNCHANGED <<parserVars, compilerVars, reportVars, fleetVars>>)
    \/ (LongStep /\ UNCHANGED <<parserVars, compilerVars, reportVars, fleetVars>>)

EffectSpec == EffectInit /\ [][EffectNext]_vars

\* ----------------------------------------------------------------- FoldSpec
\* compile on texts of declarations and one state, whose expressions the
\* optimizer folds: parse, the passes of AST.optimize, and generate_code.

\* The depth of the deepest expression of the texts.
NestingDepth == 10

\* 1 in [0, 2], d times: ((1 in [0, 2]) in [0, 2]) in [0, 2] ...
RECURSIVE Nested(_)
Nested(d) ==
    IF d = 0 THEN Num(1) ELSE RangeMembership(Nested(d - 1), Num(0), Num(2), TRUE, TRUE)

\* compile(..., constants={'ONE': 1.0, 'NIL': 0.0, 'YES': True}), after the
\* conversion of the values to Decimal: Decimal(str(1.0)) is Decimal('1.0').
FoldConstants == ("ONE" :> <<0, 10, -1>>) @@ ("NIL" :> <<0, 0, -1>>) @@ ("YES" :> Dec(1))

FoldLets ==
    { \* let t = 1
      Stmt("let", "t", <<Num(1)>>),
      \* let t = a + 1
      Stmt("let", "t", <<BinOp(Identifier("a"), "+", Num(1))>>),
      \* let u = t + 1
      Stmt("let", "u", <<BinOp(Identifier("t"), "+", Num(1))>>) }

Point5 == DecimalToken(<<0>>, <<5>>, "")

FoldActions ==
    { \* a = t, a = u + b, t = a, u => @b
      Stmt("assign", "a", <<Identifier("t")>>),
      Stmt("assign", "a", <<BinOp(Identifier("u"), "+", Identifier("b"))>>),
      Stmt("assign", "t", <<Identifier("a")>>),
      Stmt("cond", "@b", <<Identifier("u")>>),
      \* (t = 2) + 1 => @b
      Stmt("cond", "@b", <<BinOp(Assignment("t", Num(2), 0), "+", Num(1))>>),
      \* a = 0.0, a = 0%, a = 100%, a = 0.001K, a = 2, a = 0.5
      Stmt("assign", "a", <<DecimalToken(<<0>>, <<0>>, "")>>),
      Stmt("assign", "a", <<DecimalToken(<<0>>, <<>>, "%")>>),
      Stmt("assign", "a", <<DecimalToken(<<1, 0, 0>>, <<>>, "%")>>),
      Stmt("assign", "a", <<DecimalToken(<<0>>, <<0, 0, 1>>, "K")>>),
      Stmt("assign", "a", <<DecimalToken(<<2>>, <<>>, "")>>),
      Stmt("assign", "a", <<Point5>>),
      \* a = ONE, a = NIL, a = YES
      Stmt("assign", "a", <<Identifier("ONE")>>),
      Stmt("assign", "a", <<Identifier("NIL")>>),
      Stmt("assign", "a", <<Identifier("YES")>>),
      \* a = 0.5 + 0.5, a = 0.5 - 0.5, a = 2 * 0.5, a = b * 0
      Stmt("assign", "a", <<BinOp(Point5, "+", Point5)>>),
      Stmt("assign", "a", <<BinOp(Point5, "-", Point5)>>),
      Stmt("assign", "a", <<BinOp(Num(2), "*", Point5)>>),
      Stmt("assign", "a", <<BinOp(Identifier("b"), "*", Num(0))>>),
      \* a = 2 in [1, b), a = 2 in (b, 3], a = 2 in [3, b]
      Stmt("assign", "a", <<RangeMembership(Num(2), Num(1), Identifier("b"), TRUE, FALSE)>>),
      Stmt("assign", "a", <<RangeMembership(Num(2), Identifier("b"), Num(3), FALSE, TRUE)>>),
      Stmt("assign", "a", <<RangeMembership(Num(2), Num(3), Identifier("b"), TRUE, TRUE)>>),
      \* a = 1 ? b : c, a = 0 ? b : c + 1
      Stmt("assign", "a", <<TerOp(Num(1), Identifier("b"), Identifier("c"))>>),
      Stmt("assign", "a", <<TerOp(Num(0), Identifier("b"), BinOp(Identifier("c"), "+", Num(1)))>>),
      \* a = b || 0 || c, a = b && 1, a = 0 || 0
      Stmt("assign", "a", <<Infix(Infix(Identifier("b"), "||", Num(0)), "||", Identifier("c"))>>),
      Stmt("assign", "a", <<Infix(Identifier("b"), "&&", Num(1))>>),
      Stmt("assign", "a", <<Infix(Num(0), "||", Num(0))>>),
      \* a = 2 in {1, b, 3}, a = 2 in {1, 3}
      Stmt("assign", "a", <<SetMembership(Num(2), <<Num(1), Identifier("b"), Num(3)>>)>>),
      Stmt("assign", "a", <<SetMembership(Num(2), <<Num(1), Num(3)>>)>>),
      \* a = MIN(2, 1), a = MAX(b, 1), a = -(1 + 1), a = 1 / 0
      Stmt("assign", "a", <<FunctionCall("MIN", <<Num(2), Num(1)>>)>>),
      Stmt("assign", "a", <<FunctionCall("MAX", <<Identifier("b"), Num(1)>>)>>),
      Stmt("assign", "a", <<UnOp("-", BinOp(Num(1), "+", Num(1)))>>),
      Stmt("assign", "a", <<BinOp(Num(1), "/", Num(0))>>),
      \* 1 => @b, 0 => @b
      Stmt("cond", "@b", <<Num(1)>>),
      Stmt("cond", "@b", <<Num(0)>>),
      \* a = ((1 in [0, 2]) in [0, 2]) ..., one level and NestingDepth levels
      Stmt("assign", "a", <<Nested(1)>>),
      Stmt("assign", "a", <<Nested(NestingDepth)>>) }

FoldInit == ExprInit(FoldConstants)

FoldStatement == ExprLine(FoldLets, FoldActions, MaxActions)

FoldNext ==
    \/ FoldStatement
    \/ CompileEndOfInput
    \/ OptimizationPass
    \/ ExprGenerateCode

FoldSpec == FoldInit /\ [][FoldNext]_vars

\* ---------------------------------------------------------------- RangeSpec
\* compile on texts of one state that assigns range memberships to a, and
\* the runs of the programs with b and c set.

Brackets == {<<TRUE, TRUE>>, <<TRUE, FALSE>>, <<FALSE, TRUE>>, <<FALSE, FALSE>>}

\* a = operand in <low, high>, with each pair of brackets
Ranges(operand, low, high) ==
    {Stmt("assign", "a", <<RangeMembership(operand, low, high, k[1], k[2])>>) : k \in Brackets}

RangeActions ==
    UNION { \* a = b in [1, 3], a = b in [c, 3], a = b in [1, c]
            Ranges(Identifier("b"), Num(1), Num(3)),
            Ranges(Identifier("b"), Identifier("c"), Num(3)),
            Ranges(Identifier("b"), Num(1), Identifier("c")),
            \* a = 1 in [1, c], a = 3 in [c, 3]
            Ranges(Num(1), Num(1), Identifier("c")),
            Ranges(Num(3), Identifier("c"), Num(3)),
            \* a = 1 in [1, 3], a = 3 in [1, 3]
            Ranges(Num(1), Num(1), Num(3)),
            Ranges(Num(3), Num(1), Num(3)) }

RangeInit == ExprInit(NoKwargs)

RangeStatement == ExprLine({}, RangeActions, MaxActions)

\* The keyword arguments the machines are created with: b below, on, between
\* and above the bounds 1 and 3, and the bounds c and 3, and 1 and c.
RangeKwargs ==
    {Kw2("b", v, "c", 2) : v \in 0..4} \cup {Kw2("b", 1, "c", 1), Kw2("b", 3, "c", 3)}

RangeMachine == \E kwargs \in RangeKwargs : NewMachine(kwargs)

RangeNext ==
    \/ RangeStatement
    \/ CompileEndOfInput
    \/ OptimizationPass
    \/ ExprGenerateCode
    \/ (RangeMachine /\ UNCHANGED <<parserVars, compilerVars, reportVars, fleetVars>>)
    \/ (Run /\ UNCHANGED <<parserVars, compilerVars, reportVars, fleetVars>>)
    \/ (LongStep /\ UNCHANGED <<parserVars, compilerVars, reportVars, fleetVars>>)

RangeSpec == RangeInit /\ [][RangeNext]_vars

\* ---------------------------------------------------------------- LogicSpec
\* compile on texts of one state that assigns || and && operations to a, and
\* the runs of the programs with b and c set.

OneOverC == BinOp(Num(1), "/", Identifier("c"))

\* a = p op q op r, as (p op q) op r and as p op (q op r)
Logicals(op, p, q, r) ==
    {Stmt("assign", "a", <<Infix(Infix(p, op, q), op, r)>>),
     Stmt("assign", "a", <<Infix(p, op, Infix(q, op, r))>>)}

LogicActions ==
    UNION {
        UNION { \* a = b || c || random!, a = b || random! || 1 / c, a = random! || b || c
                Logicals(op, Identifier("b"), Identifier("c"), RandomValue),
                Logicals(op, Identifier("b"), RandomValue, OneOverC),
                Logicals(op, RandomValue, Identifier("b"), Identifier("c")),
                \* a = b || c, a = b || 1 / c
                {Stmt("assign", "a", <<Infix(Identifier("b"), op, Identifier("c"))>>),
                 Stmt("assign", "a", <<Infix(Identifier("b"), op, OneOverC)>>)} }
        : op \in {"||", "&&"} }

LogicInit == ExprInit(NoKwargs)

LogicStatement == ExprLine({}, LogicActions, MaxActions)

LogicKwargs == {Kw2("b", v, "c", w) : v \in {0, 1}, w \in {0, 2}}

LogicMachine == \E kwargs \in LogicKwargs : NewMachine(kwargs)

LogicNext ==
    \/ LogicStatement
    \/ CompileEndOfInput
    \/ OptimizationPass
    \/ ExprGenerateCode
    \/ (LogicMachine /\ UNCHANGED <<parserVars, compilerVars, reportVars, fleetVars>>)
    \/ (Run /\ UNCHANGED <<parserVars, compilerVars, reportVars, fleetVars>>)
    \/ (LongStep /\ UNCHANGED <<parserVars, compilerVars, reportVars, fleetVars>>)

LogicSpec == LogicInit /\ [][LogicNext]_vars

\* ------------------------------------------------------------- PeepholeSpec
\* compile on the texts of CodegenSpec, up to the emitted program.

PeepholeNext ==
    \/ CodegenStatement
    \/ CompileEndOfInput
    \/ OptimizationPass
    \/ GenerateCode

PeepholeSpec == CodegenInit /\ [][PeepholeNext]_vars

\* --------------------------------------------------------------- BranchSpec
\* compile on texts whose branches have every kind of condition: none, a
\* variable, a negation, random!, an operation and a constant.

MaxBranchLines == 4

BranchActions ==
    { Stmt("=>", "@b", <<>>),
      Stmt("cond", "@b", <<Identifier("a")>>),
      Stmt("cond", "@b", <<UnOp("!", Identifier("a"))>>),
      Stmt("cond", "@b", <<RandomValue>>),
      Stmt("cond", "@b", <<UnOp("!", RandomValue)>>),
      Stmt("cond", "@b", <<BinOp(RandomValue, "<=", Identifier("a"))>>),
      Stmt("cond", "@b", <<BinOp(Identifier("a"), "+", Identifier("b"))>>),
      Stmt("cond", "@b", <<Num(1)>>),
      Stmt("cond", "@b", <<Num(0)>>),
      Stmt("assign", "a", <<Identifier("b")>>) }

BranchInit == CompileInit

BranchStatement == CompileLine(BranchActions, MaxBranchLines)

BranchNext ==
    \/ BranchStatement
    \/ CompileEndOfInput
    \/ OptimizationPass
    \/ GenerateCode

BranchSpec == BranchInit /\ [][BranchNext]_vars

\* ---------------------------------------------------------------- ParseSpec
\* Source texts over three labels: state definitions, branches, assignments.

GraphLabels == {"@a", "@b", "@c"}

GraphStatements ==
    {Stmt("label", l, <<>>) : l \in GraphLabels}
    \cup {Stmt("=>", l, <<>>) : l \in GraphLabels}
    \cup {Stmt("assign", "x", <<Literal(DECIMAL_ONE)>>)}

ParseInit == ParserInit({"x"}, NoKwargs) /\ MachineIdle /\ CompilerIdle /\ ReportIdle /\ FleetIdle

ParseGraphStatement ==
    /\ line_number <= MaxStatements
    /\ \E stmt \in GraphStatements : ParseStatement(stmt)

ParseNext ==
    \/ (ParseGraphStatement /\ UNCHANGED <<machineVars, compilerVars, reportVars, fleetVars>>)
    \/ (EndOfInput /\ UNCHANGED <<machineVars, compilerVars, reportVars, fleetVars>>)

ParseSpec == ParseInit /\ [][ParseNext]_vars

\* ----------------------------------------------------- get_uncovered_lines
\* coverage.get_uncovered_lines(source_map, coverage_tuples).  A source map
\* entry is <<>> (None), <<n>> (line n) or <<m, n>> (lines m to n).

MaxMapLen == 2
MaxTuples == 2

\* zip(...) stops at the shortest of its arguments.
zip_length(smap, tuples) ==
    CHOOSE n \in {Len(smap)} \cup {Len(tuples[t]) : t \in DOMAIN tuples} :
        \A m \in {Len(smap)} \cup {Len(tuples[t]) : t \in DOMAIN tuples} : n <= m

\* A mutant of hit: only the last coverage tuple is looked at.
hit_in_last_tuple(tuples, i) == tuples # <<>> /\ tuples[Len(tuples)][i]

\* any(covered) for instruction i (from 1) over False and the coverage tuples
hit(tuples, i) == \E t \in DOMAIN tuples : tuples[t][i]

\* The value line_to_coverage_type gets for a line seen before.
coverage_type(old, h) == IF (~h /\ old = 2) \/ (h /\ old = 0) THEN 1 ELSE old

RECURSIVE line_to_coverage_type(_, _, _, _)
\* The first loop, from instruction i on: the dict as the list of its items
\* [line, type] in insertion order (0 = uncovered, 1 = partial, 2 = covered).
line_to_coverage_type(smap, tuples, i, dict) ==
    IF i > zip_length(smap, tuples) THEN dict
    ELSE IF smap[i] = <<>> THEN line_to_coverage_type(smap, tuples, i + 1, dict)
    ELSE IF \A k \in DOMAIN dict : dict[k].line # smap[i]
    THEN line_to_coverage_type(smap, tuples, i + 1,
             Append(dict, [line |-> smap[i], type |-> IF hit(tuples, i) THEN 2 ELSE 0]))
    ELSE line_to_coverage_type(smap, tuples, i + 1,
             [k \in DOMAIN dict |->
                 IF dict[k].line = smap[i]
                 THEN [dict[k] EXCEPT !.type = coverage_type(@, hit(tuples, i))]
                 ELSE dict[k]])

\* list(range(line[0], line[1] + 1)) for a tuple, [line] otherwise
lines_of(line) ==
    IF Len(line) = 2 THEN [j \in 1..(line[2] - line[1] + 1) |-> line[1] + j - 1] ELSE line

RECURSIVE lines_of_type(_, _, _)
\* The second loop, from item k on: the lines of the items of one type.
lines_of_type(dict, type, k) ==
    IF k > Len(dict) THEN <<>>
    ELSE (IF dict[k].type = type THEN lines_of(dict[k].line) ELSE <<>>)
         \o lines_of_type(dict, type, k + 1)

\* sorted(lines)
sorted_lines(lines) == sorted(lines, {q \in Range(lines) \X Range(lines) : q[1] < q[2]})

CoverageReport(partially_covered, uncovered) ==
    [partially_covered_line_numbers |-> partially_covered, uncovered_line_numbers |-> uncovered]

\* The CoverageReport built from the dict.
report_of(dict) ==
    CoverageReport(sorted_lines(lines_of_type(dict, 1, 1)), sorted_lines(lines_of_type(dict, 0, 1)))

get_uncovered_lines(smap, tuples) == report_of(line_to_coverage_type(smap, tuples, 1, <<>>))

\* ------------------------------------------------------------- CoverageSpec
\* Calls of get_uncovered_lines on source maps of up to MaxMapLen
\* instructions and up to MaxTuples coverage tuples of the same length.

SourceMapEntries == {<<>>, <<1>>, <<2>>, <<1, 2>>}

SourceMaps == UNION {[1..n -> SourceMapEntries] : n \in 1..MaxMapLen}

CoverageInit ==
    /\ ParserInit({}, NoKwargs)
    /\ MachineIdle
    /\ CompilerIdle
    /\ report_source_map \in SourceMaps
    /\ coverage_tuples = <<>>
    /\ report = <<>>
    /\ FleetIdle

\* One more run_with_coverage() result is added to the list.
AddCoverageTuple ==
    /\ Len(coverage_tuples) < MaxTuples
    /\ \E covered \in [1..Len(report_source_map) -> BOOLEAN] :
          coverage_tuples' = Append(coverage_tuples, covered)
    /\ report' = <<>>
    /\ UNCHANGED <<report_source_map, parserVars, machineVars, compilerVars, fleetVars>>

GetUncoveredLines ==
    /\ report = <<>>
    /\ report' = <<get_uncovered_lines(report_source_map, coverage_tuples)>>
    /\ UNCHANGED <<report_source_map, coverage_tuples, parserVars, machineVars, compilerVars,
                   fleetVars>>

CoverageNext == AddCoverageTuple \/ GetUncoveredLines

CoverageSpec == CoverageInit /\ [][CoverageNext]_vars

\* ------------------------------------------------------------------- C1
\* The state graph as the source text gives it: an edge from the state a
\* branch statement stands in to the branch's destination.

IsBranchStmt(stmt) == stmt.type \in {"=>", "cond"}

\* The label of the state that line i of the text belongs to ("" before the
\* first label).
StateOfLine(text, i) ==
    LET ls == {j \in 1..i : text[j].type = "label"}
    IN IF ls = {} THEN "" ELSE text[CHOOSE j \in ls : \A k \in ls : k <= j].name

SourceEdges(text) ==
    {<<StateOfLine(text, i), text[i].name>> : i \in {j \in DOMAIN text : IsBranchStmt(text[j])}}

SourceLabels(text) == {text[i].name : i \in {j \in DOMAIN text : text[j].type = "label"}}

\* u reaches v by one or more edges of E.
RECURSIVE ReachableIn(_, _, _)
ReachableIn(E, frontier, seen) ==
    LET next == {e[2] : e \in {d \in E : d[1] \in frontier}} \ seen
    IN IF next = {} THEN seen ELSE ReachableIn(E, next, seen \cup next)

Reaches(E, u, v) == v \in ReachableIn(E, {u}, {})

HasCycle(E) == \E e \in E : Reaches(E, e[1], e[1])

\* c is a strongly connected component of E with more than one state.
IsNontrivialSCC(E, c) ==
    /\ Cardinality(c) > 1
    /\ \A u, v \in c : Reaches(E, u, v)
    /\ \A e \in E : \A u \in c :
          e[1] \notin c => ~(Reaches(E, u, e[1]) /\ Reaches(E, e[1], u))

\* The whole text was read and validated (EndOfInput happened).
ParseFinished ==
    \/ pstatus = "ok"
    \/ pstatus = "error" /\ perror.msg \in {"no states are defined", "branch to undefined label",
                                             "cycle exists between states"}

\* C1: compile accepts a program only if its state graph is acyclic.  A text
\* that parse accepts has no state that reaches itself; a branch statement to
\* the state it stands in is rejected with 'branch to itself'; a text whose
\* branches all go to defined labels and that has a cycle is rejected with
\* 'cycle exists between states', naming exactly the states of one strongly
\* connected component of more than one state; and neither error is reported
\* for a text without such a path.
C1_AcceptsOnlyAcyclic ==
    LET E == SourceEdges(source)
        last == source[Len(source)]
    IN /\ pstatus = "ok" => ~HasCycle(E)
       /\ (ParseFinished /\ HasCycle(E)) => pstatus = "error"
       /\ (ParseFinished /\ HasCycle(E) /\ \A e \in E : e[2] \in SourceLabels(source))
             => perror.msg = "cycle exists between states"
       /\ perror.msg = "cycle exists between states" =>
             /\ Len(perror.labels) = Cardinality(Range(perror.labels))
             /\ IsNontrivialSCC(E, Range(perror.labels))
       /\ (pstatus = "error" /\ source # <<>> /\ IsBranchStmt(last)
              /\ StateOfLine(source, Len(source)) = last.name)
             => perror = CompilationError("branch to itself in state", <<last.name>>)
       /\ perror.msg = "branch to itself in state" =>
             /\ IsBranchStmt(last)
             /\ <<last.name, last.name>> \in E
       /\ ~HasCycle(E) =>
             perror.msg \notin {"cycle exists between states", "branch to itself in state"}

\* C1 witness: a text with three states of which two form a cycle is rejected.
C1_Witness ==
    /\ perror.msg = "cycle exists between states"
    /\ Len(perror.labels) = 2
    /\ Len(states) = 3

\* ------------------------------------------------ Claims about dsm.Machine

JustReset == mstatus = "ready" /\ last_call.op = "reset"

RunEnded == mstatus \in {"returned", "raised"}

\* C2, as the specification states it: immediately after reset(**overrides),
\* every variable not named in the overrides reads as 0.
C2_ResetZeroesAll ==
    JustReset =>
        \A i \in DOMAIN variables :
            dsmal.variables[i] \notin DOMAIN last_call.kwargs => variables[i] = DECIMAL_ZERO

\* C2, amended: immediately after reset(**overrides), every variable named in
\* the overrides reads as its override, and every variable neither named in the
\* overrides nor given a value when the machine was created reads as 0,
\* whatever earlier runs left in it.
C2_ResetAppliesOverrides ==
    JustReset =>
        \A i \in DOMAIN variables :
            LET name == dsmal.variables[i]
            IN /\ name \in DOMAIN last_call.kwargs =>
                      variables[i] = Reduce(last_call.kwargs[name])
               /\ name \notin DOMAIN last_call.kwargs /\ name \notin DOMAIN created_with =>
                      variables[i] = DECIMAL_ZERO

\* A reset with a non-zero override has just wiped a variable that was never
\* given a value and that an earlier run had left non-zero.
C2_Witness ==
    /\ JustReset
    /\ remembered # <<>>
    /\ \E i, j \in DOMAIN variables :
         /\ dsmal.variables[i] \in DOMAIN last_call.kwargs
         /\ ~IsZero(variables[i])
         /\ dsmal.variables[j] \notin DOMAIN last_call.kwargs
         /\ dsmal.variables[j] \notin DOMAIN created_with
         /\ ~IsZero(remembered[1].variables[j])
         /\ variables[j] = DECIMAL_ZERO

\* C3: immediately after reset(**overrides), every variable not named in the
\* overrides holds the value it was given when the machine was created (zero
\* if it was given none), not the value a previous run wrote.
C3_ResetRestoresCreationValues ==
    JustReset =>
        \A i \in DOMAIN variables :
            LET name == dsmal.variables[i]
            IN name \notin DOMAIN last_call.kwargs =>
                   variables[i] = IF name \in DOMAIN created_with
                                  THEN Reduce(created_with[name]) ELSE DECIMAL_ZERO

\* The machine created with a=3, b=5, multiply=0 has run (c was written), and
\* after reset(multiply=1) a and b are still 3 and 5 and c is 0 again.
C3_Witness ==
    /\ JustReset
    /\ created_with = Kw3("a", 3, "b", 5, "multiply", 0)
    /\ last_call.kwargs = Kw1("multiply", 1)
    /\ remembered # <<>>
    /\ ~IsZero(remembered[1].variables[4])
    /\ variables = <<Dec(3), Dec(5), Dec(1), Dec(0)>>

\* C6: two runs that start from the same variable values, with the same
\* instruction limit and the same random source (the same values still to come
\* from the iterator, or the same values drawn from the default source), end
\* with the same variable values, the same returned instruction count and the
\* same error.
C6_SameStartSameOutcome ==
    (RunEnded /\ remembered # <<>>) =>
        LET r == remembered[1]
        IN (/\ r.start.variables = run_start.variables
            /\ r.start.iterator = run_start.iterator
            /\ r.start.limit = run_start.limit
            /\ r.drawn = drawn)
           => /\ r.variables = variables
              /\ r.status = mstatus
              /\ r.returned = (IF mstatus = "returned" THEN executed ELSE 0)
              /\ r.error = execution_error

\* A run right after the machine was created and a later run right after a
\* reset started alike, and both returned having changed a variable.
C6_Witness ==
    /\ mstatus = "returned"
    /\ remembered # <<>>
    /\ remembered[1].start.after = "machine"
    /\ run_start.after = "reset"
    /\ remembered[1].start.variables = run_start.variables
    /\ remembered[1].start.iterator = run_start.iterator
    /\ remembered[1].start.limit = run_start.limit
    /\ remembered[1].drawn = drawn
    /\ variables # run_start.variables
    /\ executed > 1
\* A run is going on or has just ended, under the instruction limit it began with.
RunUnderLimit == mstatus \in {"running", "returned", "raised"} /\ run_start.limit # <<>>

C7_NeverMoreThanLimit ==
    /\ RunUnderLimit => executed <= run_start.limit[1]
    /\ (RunEnded /\ execution_error.msg = LimitError) =>
           /\ run_start.limit # <<>>
           /\ executed = run_start.limit[1]
           /\ execution_error.detail = run_start.limit

C7_AbortsAtLimit ==
    (mstatus = "running" /\ run_start.limit # <<>> /\ executed = run_start.limit[1]) =>
        /\ mstatus' = "raised"
        /\ execution_error'.msg \in {LimitError, OutOfBoundsError}
        /\ ~out_of_bounds(dsmal, pointer) =>
               execution_error' = ExecutionError(LimitError, pointer, "", run_start.limit)

\* C7: with instruction_limit = N no run executes more than N instructions; a
\* run that has executed N instructions without reaching Xx is aborted by its
\* next step, with 'execution forcibly terminated after N instructions' if the
\* pointer is at an instruction; and every run under a limit ends.
C7_LimitBoundsEveryRun ==
    /\ []C7_NeverMoreThanLimit
    /\ [][C7_AbortsAtLimit]_vars
    /\ (mstatus = "running" /\ instruction_limit # <<>>) ~> (mstatus # "running")

\* ';;Ju0' was stopped by the largest limit after exactly that many instructions.
C7_Witness ==
    /\ dsmal.instructions = <<Instr("Ju", 0)>>
    /\ mstatus = "raised"
    /\ run_start.limit = <<MaxLimit>>
    /\ executed = MaxLimit
    /\ execution_error = ExecutionError(LimitError, 0, "", <<MaxLimit>>)

\* A jump (Ju, Jn, Jz) of the program names no instruction.
JumpsOutside(d) ==
    \E i \in DOMAIN d.instructions :
        /\ d.instructions[i].opcode \in {"Ju", "Jn", "Jz"}
        /\ d.instructions[i].param >= Len(d.instructions)

\* The last instruction of the program lets execution run past it.
EndsOpen(d) ==
    d.instructions # <<>> /\ d.instructions[Len(d.instructions)].opcode \notin {"Xx", "Ju"}

\* Names, opcodes and the slots of Lv and Lc are what the loader asks for.
SlotsInRange(d) ==
    /\ \A i \in DOMAIN d.instructions :
         /\ d.instructions[i].opcode \in Opcodes
         /\ d.instructions[i].opcode = "Lv" => d.instructions[i].param < Len(d.variables)
         /\ d.instructions[i].opcode = "Lc" => d.instructions[i].param < Len(d.constants)
    /\ \A i, j \in DOMAIN d.variables :
         d.variables[i] # "" /\ (i # j => d.variables[i] # d.variables[j])

C8_LoadsAndReportsLocation ==
    /\ (loaded # "no" /\ SlotsInRange(dsmal) /\ (JumpsOutside(dsmal) \/ EndsOpen(dsmal))) =>
           loaded = "yes"
    /\ (RunEnded /\ execution_error.msg = OutOfBoundsError) =>
           /\ pointer >= Len(dsmal.instructions)
           /\ execution_error = ExecutionError(OutOfBoundsError, pointer, "", <<pointer>>)
    /\ (RunEnded /\ run_start.limit = <<>> /\ dsmal.instructions = <<Instr("Ju", 2), Instr("Xx", 0)>>) =>
           execution_error = ExecutionError(OutOfBoundsError, 2, "", <<2>>)
    /\ (RunEnded /\ run_start.limit = <<>> /\ dsmal.instructions = <<Instr("Lc", 0)>>) =>
           execution_error = ExecutionError(OutOfBoundsError, 1, "", <<1>>)

C8_RaisesWhenOutside ==
    (mstatus = "running" /\ pointer >= Len(dsmal.instructions)) =>
        /\ mstatus' = "raised"
        /\ execution_error'.msg \in {LimitError, OutOfBoundsError}
        /\ ~limit_reached(instruction_limit, executed) =>
               execution_error' = ExecutionError(OutOfBoundsError, pointer, "", <<pointer>>)

\* C8: a program whose jump names no instruction, or whose last instruction is
\* no terminator, loads; a run raises 'current execution location <i> is
\* out-of-bounds' only with the pointer i at or past the number of
\* instructions, and does raise it in the step after the pointer got there
\* (';;Ju2Xx' at location 2, ';123;Lc0' at location 1).
C8_OutOfBoundsAtRunTime == []C8_LoadsAndReportsLocation /\ [][C8_RaisesWhenOutside]_vars

\* ';;Ju2Xx' was loaded, jumped to 2 and the run raised there.
C8_Witness ==
    /\ dsmal.instructions = <<Instr("Ju", 2), Instr("Xx", 0)>>
    /\ loaded = "yes"
    /\ mstatus = "raised"
    /\ executed = 1
    /\ execution_error = ExecutionError(OutOfBoundsError, 2, "", <<2>>)

ReplayFuel == MaxExecuted + MaxLimit + 2

\* The run of a machine that has never run before: StepFn from StartOfRun
\* until the run ends, the default random source yielding the values rs.
RECURSIVE Replay(_, _, _, _, _)
Replay(prog, limit, x, rs, fuel) ==
    IF fuel = 0 \/ x.status # "running" THEN x
    ELSE LET r == IF rs = <<>> THEN DECIMAL_ZERO ELSE Head(rs)
         IN Replay(prog, limit, StepFn(prog, limit, x, r),
                   IF Draws(prog, limit, x) /\ rs # <<>> THEN Tail(rs) ELSE rs, fuel - 1)

FreshRun ==
    Replay(dsmal, run_start.limit,
           StartOfRun(run_start.variables, run_start.iterator, Len(dsmal.instructions)),
           drawn, ReplayFuel)

Compiled == cstage = "done"

\* The Lv and St instructions of the compiled program that name slot k.
SlotUses(k) ==
    Cardinality({i \in DOMAIN dsmal.instructions :
                    /\ dsmal.instructions[i].opcode \in {"Lv", "St"}
                    /\ dsmal.instructions[i].param = k})

\* The slot of variable v in the compiled program.
SlotOf(v) == (CHOOSE k \in DOMAIN dsmal.variables : dsmal.variables[k] = v) - 1

SourceIs(text) == source = text

\* C4: the variables of a compiled program are every external variable name
\* and every declared variable that was not inlined, each in exactly one slot;
\* every Lv and St of the final instruction list carries the slot of the
\* variable it names; and the slots go by descending number of Lv/St
\* references in that list, equal numbers by ascending name.  `a` used once
\* and `b` twice gives b=0, a=1; used equally they get a=0, b=1.
C4_SlotsByUseThenName ==
    Compiled =>
        LET V == dsmal.variables
        IN /\ Range(V) = variable_names \cup declared_variable_names
           /\ Len(V) = Cardinality(Range(V))
           /\ Len(dsmal.instructions) = Len(instructions)
           /\ \A i \in DOMAIN instructions :
                 /\ dsmal.instructions[i].opcode = instructions[i].opcode
                 /\ instructions[i].opcode \in {"Lv", "St"} =>
                       /\ dsmal.instructions[i].param \in 0..(Len(V) - 1)
                       /\ V[dsmal.instructions[i].param + 1] = instructions[i].name
           /\ \A k \in 1..(Len(V) - 1) :
                 \/ SlotUses(k - 1) > SlotUses(k)
                 \/ SlotUses(k - 1) = SlotUses(k) /\ name_less(V[k], V[k + 1])
           /\ SourceIs(<<Stmt("label", "@a", <<>>),
                         Stmt("assign", "a", <<BinOp(Identifier("b"), "+", Identifier("b"))>>)>>)
                 => SlotOf("b") = 0 /\ SlotOf("a") = 1
           /\ SourceIs(<<Stmt("label", "@a", <<>>), Stmt("assign", "a", <<Identifier("b")>>)>>)
                 => SlotOf("a") = 0 /\ SlotOf("b") = 1

\* C4 witness: a declared variable that was not inlined has slot 0, ahead of
\* two external variables with one reference each, and the names were
\* presented in another order.
C4_Witness ==
    /\ Compiled
    /\ dsmal.variables = <<"t", "a", "b">>
    /\ SlotUses(0) = 2 /\ SlotUses(1) = 1 /\ SlotUses(2) = 1
    /\ presented[1] = "b"

\* A compiled text that uses `a` once and `b` twice.
C4_WitnessExample ==
    /\ Compiled
    /\ SourceIs(<<Stmt("label", "@a", <<>>),
                  Stmt("assign", "a", <<BinOp(Identifier("b"), "+", Identifier("b"))>>)>>)
    /\ dsmal.variables = <<"b", "a">>

\* C5: compile is deterministic.  Whatever the order in which the variable
\* names and the declared variables are listed for the code generator, the
\* compilation of a text yields the same DSMAL (variables, constants and
\* instructions) and the same source map.
C5_SameCodeInEveryOrder ==
    [][(GenerateCode /\ cstage' = "done") =>
          \A l1 \in Lists(variable_names), l2 \in Lists(declared_variable_names) :
              \E code \in {generate_code(l1 \o l2, initializations, states)} :
                  /\ ~code.hung
                  /\ code.program = dsmal'
                  /\ code.source_map = source_map']_vars

\* C5 witness: two variables with the same number of references, listed for
\* the code generator in the reverse of the order of their slots.
C5_Witness ==
    /\ Compiled
    /\ Len(dsmal.variables) >= 2
    /\ SlotUses(0) = SlotUses(1)
    /\ SlotUses(0) > 0
    /\ presented[1] = dsmal.variables[2]
    /\ presented[2] = dsmal.variables[1]

RECURSIVE ZeroDivisions(_), ZeroDivisionsIn(_)
\* The divisions by the literal zero in the tree of a node.
ZeroDivisions(node) ==
    (IF node.kind = "BinOp" /\ node.op = "/" /\ node.kids[2].kind = "Literal"
        /\ IsZero(node.kids[2].value) THEN 1 ELSE 0)
    + ZeroDivisionsIn(node.kids)

\* The divisions by the literal zero in the trees of a sequence of nodes.
ZeroDivisionsIn(nodes) ==
    IF nodes = <<>> THEN 0 ELSE ZeroDivisions(Head(nodes)) + ZeroDivisionsIn(Tail(nodes))

OneOverZero ==
    <<Stmt("label", "@a", <<>>), Stmt("assign", "a", <<BinOp(Num(1), "/", Num(0))>>)>>

FiveOverZero ==
    <<Stmt("label", "@a", <<>>), Stmt("assign", "a", <<BinOp(Num(5), "/", Num(0))>>)>>

Opcode(i) == dsmal.instructions[i].opcode

\* The texts `a = 1 / 0` and `a = 5 / 0` are compiled without an error, to
\* code that loads both operands, divides and stores; their runs end with
\* 'illegal Dv' at instruction 2, and wherever a run ends with 'illegal Dv'
\* the instruction of the error is a Dv.
C10_CompilesAndRaisesAtDv ==
    /\ (SourceIs(OneOverZero) \/ SourceIs(FiveOverZero)) =>
          /\ pstatus # "error"
          /\ cstage # "hung"
          /\ loaded # "invalid"
          /\ RunEnded => /\ mstatus = "raised"
                         /\ execution_error = ExecutionError("illegal Dv", 2, "Dv", <<>>)
                         /\ Opcode(execution_error.instruction + 1) = "Dv"
    /\ (Compiled /\ SourceIs(OneOverZero)) =>
          dsmal = DSMAL(<<"a", "b">>, <<>>,
                        <<Instr("Lo", 0), Instr("Lz", 0), Instr("Dv", 0), Instr("St", 0),
                          Instr("Xx", 0)>>)
    /\ (Compiled /\ SourceIs(FiveOverZero)) =>
          dsmal = DSMAL(<<"a", "b">>, <<Dec(5)>>,
                        <<Instr("Lc", 0), Instr("Lz", 0), Instr("Dv", 0), Instr("St", 0),
                          Instr("Xx", 0)>>)
    /\ (mstatus = "raised" /\ execution_error.msg = "illegal Dv") =>
          Opcode(execution_error.instruction + 1) = "Dv"

\* An optimization pass removes no division by the literal zero.
C10_PassKeepsZeroDivisions ==
    OptimizationPass =>
        ZeroDivisionsIn(initializations' \o states') >= ZeroDivisionsIn(initializations \o states)

\* C10: a division whose divisor is the literal zero is never folded and
\* never makes compile fail: `a = 1 / 0` and `a = 5 / 0` compile to code that
\* loads both operands and executes Dv, and running it raises 'illegal Dv at
\* instruction 2', the instruction of the error being the index of the Dv.
C10_ZeroDivisionLeftToRunTime ==
    []C10_CompilesAndRaisesAtDv /\ [][C10_PassKeepsZeroDivisions]_vars

\* C10 witness: `a = 1 / 0` was compiled and its run ended at the Dv.
C10_Witness ==
    /\ Compiled
    /\ SourceIs(OneOverZero)
    /\ mstatus = "raised"
    /\ execution_error.instruction = 2
    /\ ZeroDivisionsIn(states) = 1

\* ------------------------------------------- Claims about get_uncovered_lines

Reported == report # <<>>

\* The entries of the source map other than None.
MappedEntries == Range(report_source_map) \ {<<>>}

\* The instructions mapped to an entry.
InstructionsOf(entry) == {i \in DOMAIN report_source_map : report_source_map[i] = entry}

\* Instruction i was executed in at least one of the runs.
WasHit(i) == \E t \in DOMAIN coverage_tuples : coverage_tuples[t][i]

SomeHitSomeNot(entry) ==
    /\ \E i \in InstructionsOf(entry) : WasHit(i)
    /\ \E i \in InstructionsOf(entry) : ~WasHit(i)

NoneHit(entry) == \A i \in InstructionsOf(entry) : ~WasHit(i)

\* The lines an entry stands for.
LinesOfEntry(entry) == IF Len(entry) = 2 THEN entry[1]..entry[2] ELSE {entry[1]}

Occurrences(list, x) == Cardinality({k \in DOMAIN list : list[k] = x})

Ascending(list) == \A k \in 1..(Len(list) - 1) : list[k] <= list[k + 1]

\* C11: with coverage vectors as long as the source map, get_uncovered_lines
\* lists a line as partially covered once for every entry that holds the line
\* and has both an instruction that was hit in some vector and one that was hit
\* in none, and as uncovered once for every entry that holds it and has no
\* instruction that was hit (every mapped entry when there are no vectors);
\* entries whose instructions were all hit and instructions mapped to None
\* add nothing, an entry <<m, n>> stands for every line from m to n, and both
\* lists are in ascending order.
C11_ReportByEntry ==
    Reported =>
        LET r == report[1]
            lines == UNION {LinesOfEntry(entry) : entry \in MappedEntries}
        IN /\ Range(r.partially_covered_line_numbers) \subseteq lines
           /\ Range(r.uncovered_line_numbers) \subseteq lines
           /\ \A x \in lines :
                 /\ Occurrences(r.partially_covered_line_numbers, x)
                      = Cardinality({entry \in MappedEntries :
                                        SomeHitSomeNot(entry) /\ x \in LinesOfEntry(entry)})
                 /\ Occurrences(r.uncovered_line_numbers, x)
                      = Cardinality({entry \in MappedEntries :
                                        NoneHit(entry) /\ x \in LinesOfEntry(entry)})
           /\ Ascending(r.partially_covered_line_numbers)
           /\ Ascending(r.uncovered_line_numbers)
           /\ coverage_tuples = <<>> =>
                 /\ r.partially_covered_line_numbers = <<>>
                 /\ Range(r.uncovered_line_numbers) = lines

\* C11 witness: two instructions of the statement on lines 1 to 2, one of them
\* hit in the first of two runs only: both lines are partially covered.
C11_Witness ==
    /\ Reported
    /\ report_source_map = <<<<1, 2>>, <<1, 2>>>>
    /\ coverage_tuples = <<<<TRUE, FALSE>>, <<FALSE, FALSE>>>>
    /\ report[1] = CoverageReport(<<1, 2>>, <<>>)

\* -------------------------------------------- Claims about run_with_coverage

RECURSIVE ExecutedIn(_, _, _, _, _)
\* The locations of the instructions a run from execution state x executes,
\* the default random source yielding the values rs.
ExecutedIn(prog, limit, x, rs, fuel) ==
    IF fuel = 0 \/ x.status # "running" THEN {}
    ELSE LET r == IF rs = <<>> THEN DECIMAL_ZERO ELSE Head(rs)
             y == StepFn(prog, limit, x, r)
         IN (IF y.status # "raised" THEN {x.pointer} ELSE {})
            \cup ExecutedIn(prog, limit, y,
                            IF Draws(prog, limit, x) /\ rs # <<>> THEN Tail(rs) ELSE rs, fuel - 1)

\* The locations the current run has executed, from the state it began in.
ExecutedByRun ==
    ExecutedIn(dsmal, run_start.limit,
               StartOfRun(run_start.variables, run_start.iterator, Len(dsmal.instructions)),
               drawn, ReplayFuel)

CoverageReturned == mstatus = "returned" /\ last_call.op = "run_with_coverage"

\* The remembered run was made by run() from the state the current run began in.
SameStartByRun ==
    /\ remembered # <<>>
    /\ remembered[1].start.call = "run"
    /\ remembered[1].start.variables = run_start.variables
    /\ remembered[1].start.iterator = run_start.iterator
    /\ remembered[1].start.limit = run_start.limit
    /\ remembered[1].drawn = drawn

TestCoverageProgram ==
    DSMAL(<<"a", "b", "multiply", "c">>, <<>>,
          <<Instr("Lv", 0), Instr("Lv", 1), Instr("Lv", 2), Instr("Jn", 6), Instr("Ad", 0),
            Instr("Ju", 7), Instr("Ml", 0), Instr("St", 3), Instr("Xx", 0)>>)

\* C12: run_with_coverage returns one boolean per instruction of the program,
\* true exactly for the instructions executed at least once during that run,
\* and ends with the variable values that run() ends with from the same
\* starting state.  On the program of test_coverage it returns the two tuples
\* of the test.
C12_CoverageOfTheRun ==
    CoverageReturned =>
        /\ DOMAIN run_result = {"coverage"}
        /\ Len(run_result.coverage) = Len(dsmal.instructions)
        /\ \A i \in DOMAIN dsmal.instructions :
              run_result.coverage[i] <=> (i - 1) \in ExecutedByRun
        /\ variables = FreshRun.variables
        /\ SameStartByRun =>
              /\ remembered[1].status = "returned"
              /\ remembered[1].variables = variables
        /\ (dsmal = TestCoverageProgram /\ run_start.variables = <<Dec(3), Dec(5), Dec(0), Dec(0)>>) =>
              /\ run_result.coverage = <<TRUE, TRUE, TRUE, TRUE, TRUE, TRUE, FALSE, TRUE, TRUE>>
              /\ variables[4] = Dec(8)
        /\ (dsmal = TestCoverageProgram /\ run_start.variables = <<Dec(3), Dec(5), Dec(1), Dec(0)>>) =>
              /\ run_result.coverage = <<TRUE, TRUE, TRUE, TRUE, FALSE, FALSE, TRUE, TRUE, TRUE>>
              /\ variables[4] = Dec(15)

\* C12 witness: after a run() that took the addition path, the machine was
\* reset and run_with_coverage took the multiplication path: instructions 4
\* and 5, executed by the earlier run, are not covered.
C12_Witness ==
    /\ CoverageReturned
    /\ dsmal = TestCoverageProgram
    /\ run_start.variables = <<Dec(3), Dec(5), Dec(1), Dec(0)>>
    /\ remembered # <<>>
    /\ remembered[1].variables[4] = Dec(8)
    /\ coverage = <<TRUE, TRUE, TRUE, TRUE, FALSE, FALSE, TRUE, TRUE, TRUE>>

\* A run() and a later run_with_coverage() from the same starting state.
C12_WitnessSameStart ==
    /\ CoverageReturned
    /\ SameStartByRun
    /\ variables # run_start.variables

\* ------------------------------------- Claims about the Machines of a Program

\* Every Machine is in the state it would be in, had the calls made on it
\* been the only calls: same variable values, same run state and results.
C13_AsIfAlone == \A m \in DOMAIN machines : machines[m] = solo[m]

\* No call on a Machine and no step of a run changes the Program.
C13_ProgramUnchanged == loaded = "yes" => (dsmal' = dsmal /\ loaded' = loaded)

EmptyStates == {states[i].name : i \in {j \in DOMAIN states : states[j].kids = <<>>}}

\* The emitted instructions that carry the label l.
LabelledWith(l) == {i \in DOMAIN instructions : l \in Range(instructions[i].labels)}

\* The emitted instructions that jump to the label l.
JumpsTo(l) == {i \in DOMAIN instructions : instructions[i].opcode \in Jumps /\ instructions[i].name = l}

\* @a: a => @b; => @c   @b:   @c: a = b
EmptyStateAfterBranch ==
    << Stmt("label", "@a", <<>>),
       Stmt("cond", "@b", <<Identifier("a")>>),
       Stmt("=>", "@c", <<>>),
       Stmt("label", "@b", <<>>),
       Stmt("label", "@c", <<>>),
       Stmt("assign", "a", <<Identifier("b")>>) >>

\* C14: a state with no actions terminates the run when it is entered: in the
\* emitted code the label of every empty state is on an Xx, so that a jump to
\* it executes no instruction of another state, also when the state before it
\* ends with an unconditional branch and a further state follows.
C14_EmptyStateTerminates ==
    Compiled =>
        \A l \in EmptyStates : \A i \in LabelledWith(l) : instructions[i].opcode = "Xx"

\* The program of EmptyStateAfterBranch was run with a = 1 (and b = 0): the
\* branch to the empty state @b was taken, and the run went on into @c and
\* stored b in a.
C14_RunEntersNextState ==
    /\ Compiled
    /\ SourceIs(EmptyStateAfterBranch)
    /\ "@b" \in EmptyStates
    /\ JumpsTo("@b") # {}
    /\ mstatus = "returned"
    /\ run_start.variables[SlotOf("a") + 1] = DECIMAL_ONE
    /\ variables[SlotOf("a") + 1] = DECIMAL_ZERO

\* A run has begun on a machine of the compiled program.
RunOfCompiled == Compiled /\ mstatus \in {"running", "returned", "raised"}

\* The instructions the run has executed at least once.
ExecutedOnce == {i \in DOMAIN coverage : coverage[i]}

\* @a: => @c   @b:   @c: a => @b
BranchToEmptyStateBefore ==
    << Stmt("label", "@a", <<>>),
       Stmt("=>", "@c", <<>>),
       Stmt("label", "@b", <<>>),
       Stmt("label", "@c", <<>>),
       Stmt("cond", "@b", <<Identifier("a")>>) >>

\* C15: every run of a compiled program terminates without an instruction
\* limit: no instruction is executed twice in one run (the instructions
\* executed are as many as the distinct instructions executed), so the run ends
\* after at most as many steps as the program has instructions.
C15_NoInstructionTwice ==
    RunOfCompiled =>
        /\ executed = Cardinality(ExecutedOnce)
        /\ executed <= Len(dsmal.instructions)

\* The program of BranchToEmptyStateBefore runs with a = 1 and no instruction
\* limit: it has executed more instructions than it has and is still running.
C15_RunGoesRound ==
    /\ Compiled
    /\ SourceIs(BranchToEmptyStateBefore)
    /\ instruction_limit = <<>>
    /\ mstatus = "running"
    /\ executed > Len(dsmal.instructions)

\* The instruction list _optimize is given: the code of the AST as emitted.
EmittedIR == generate_ir(initializations, states).instructions

\* @a: => @b   @b:   @c: => @b
BranchesToEmptyState ==
    << Stmt("label", "@a", <<>>),
       Stmt("=>", "@b", <<>>),
       Stmt("label", "@b", <<>>),
       Stmt("label", "@c", <<>>),
       Stmt("=>", "@b", <<>>) >>

\* C16: code generation terminates for every program the parser accepts: the
\* loop of _optimize that follows the targets of a jump while they are Ju
\* instructions always comes to an instruction that is not a Ju.
C16_CodeGenerationTerminates == cstage # "hung"

\* The parser accepted BranchesToEmptyState, and in the code emitted for it a
\* Ju carries the label it jumps to: the loop that follows it does not end.
C16_JuTargetsItself ==
    /\ cstage = "hung"
    /\ pstatus = "ok"
    /\ SourceIs(BranchesToEmptyState)
    /\ \E i \in DOMAIN EmittedIR :
           /\ EmittedIR[i].opcode = "Ju"
           /\ EmittedIR[i].name \in Range(EmittedIR[i].labels)

\* ------------------------------------------------ Claims about Branch.emit
\* Checked under BranchSpec, where every action is on a line of its own, so
\* that the line number of an instruction tells the branch it was emitted for.

\* The code was generated (or the attempt did not end): `states` is the AST
\* the code generator was given.
CodeGenerated == cstage \in {"done", "hung"}

\* The instructions emitted for the action on line n, in their order.
EmittedFor(n) == SelectSeq(EmittedIR, LAMBDA ins : ins.line_number = n)

\* What an instruction does: its opcode and parameter.
Operation(ins) == <<ins.opcode, ins.name, ins.value>>

\* The operations that evaluate the expression node.
Evaluation(node) ==
    LET code == emit_expression(NewCodeGenerator, node).instructions
    IN [i \in DOMAIN code |-> Operation(code[i])]

\* The branch is compiled as stated: a Ju if it has no condition; else the
\* evaluation of X and a Jz if the condition is !X, the evaluation of the
\* condition and a Jn otherwise.
CompiledAsStated(branch) ==
    LET code == EmittedFor(branch.line)
        ops == [i \in DOMAIN code |-> Operation(code[i])]
        condition == branch.kids[1]
        negated == condition.kind = "UnOp" /\ condition.op = "!"
    IN IF branch.kids = <<>>
       THEN ops = << <<"Ju", branch.name, NoValue>> >>
       ELSE ops = Append(Evaluation(IF negated THEN condition.kids[1] ELSE condition),
                         <<(IF negated THEN "Jz" ELSE "Jn"), branch.name, NoValue>>)

\* @a: random! => @b; a = b   @b:
RandomBranch ==
    << Stmt("label", "@a", <<>>),
       Stmt("cond", "@b", <<RandomValue>>),
       Stmt("assign", "a", <<Identifier("b")>>),
       Stmt("label", "@b", <<>>) >>

\* C17: a branch whose condition is not null is compiled to the evaluation of
\* the condition and a conditional jump (Jz for !X, Jn otherwise), and only a
\* branch with a null condition to a Ju, whatever the condition is, random!
\* alone included.
C17_ConditionIsEvaluated ==
    CodeGenerated =>
        \A k \in DOMAIN AllBranches(states) : CompiledAsStated(AllBranches(states)[k])

\* RandomBranch is compiled: its branch has the condition random!, the code
\* emitted for it is a single Ju, and the program that results is Xx alone
\* (the assignment after the branch is unreachable).
C17_RandomBranchIsJu ==
    /\ Compiled
    /\ SourceIs(RandomBranch)
    /\ AllBranches(states)[1].kids = <<RandomValue>>
    /\ Len(EmittedFor(2)) = 1
    /\ EmittedFor(2)[1].opcode = "Ju"
    /\ dsmal.instructions = <<Instr("Xx", 0)>>

\* Every branch whose condition is not random! alone is compiled as stated.
C17_OtherConditions ==
    CodeGenerated =>
        \A k \in DOMAIN AllBranches(states) :
            AllBranches(states)[k].kids # <<RandomValue>> => CompiledAsStated(AllBranches(states)[k])

\* ------------------------------------------- Claims about the peephole passes
\* Checked under PeepholeSpec.

\* Instruction i of the program (from 1) is a jump of the kind `opcode` to the
\* instruction that follows it (jump parameters count from 0).
JumpsToNext(i, opcode) ==
    dsmal.instructions[i].opcode = opcode /\ dsmal.instructions[i].param = i

\* @a: a => @c; => @b   @b: => @c   @c: a = b
BranchOverBranch ==
    << Stmt("label", "@a", <<>>),
       Stmt("cond", "@c", <<Identifier("a")>>),
       Stmt("=>", "@b", <<>>),
       Stmt("label", "@b", <<>>),
       Stmt("=>", "@c", <<>>),
       Stmt("label", "@c", <<>>),
       Stmt("assign", "a", <<Identifier("b")>>) >>

\* C18: after code generation no instruction of the emitted program is a Ju
\* whose target is the instruction that follows it.
C18_NoJuToNext ==
    Compiled => \A i \in DOMAIN dsmal.instructions : ~JumpsToNext(i, "Ju")

\* BranchOverBranch is compiled.  The first pass makes the Ju of @a, emitted
\* as a jump to the Ju of @b, a jump to @c, over the Ju of @b; the second
\* deletes the Ju of @b, now unreachable, which makes the Ju of @a and its
\* target adjacent; the third deletes it.  Lv0 Jn2 Lv1 St0 Xx is left, in
\* which the Jn is next to its target.
C18_Witness ==
    /\ Compiled
    /\ SourceIs(BranchOverBranch)
    /\ Cardinality({i \in DOMAIN EmittedIR : EmittedIR[i].opcode = "Ju"}) = 2
    /\ dsmal.instructions =
          <<Instr("Lv", 0), Instr("Jn", 2), Instr("Lv", 1), Instr("St", 0), Instr("Xx", 0)>>
    /\ JumpsToNext(2, "Jn")

\* Instruction i of the emitted code is the first instruction of a state other
\* than the first state of the text.
FirstOfLaterState(i) ==
    \E k \in DOMAIN states : k > 1 /\ states[k].name \in Range(instructions[i].labels)

\* The action on line n is followed, in its state, by a branch that is
\* emitted as Ju.
FollowedByJu(n) ==
    \E k \in DOMAIN states : \E j \in DOMAIN states[k].kids :
        /\ states[k].kids[j].line = n
        /\ j + 1 \in DOMAIN states[k].kids
        /\ states[k].kids[j + 1].kind = "Branch"
        /\ ~truth(states[k].kids[j + 1].kids)

\* The last instruction of the emitted program is Ju or Xx.
LastIsJuOrXx == instructions[Len(instructions)].opcode \in {"Ju", "Xx"}

\* @a: a = b; => @b   @b: a = b
BranchToNextState ==
    << Stmt("label", "@a", <<>>),
       Stmt("assign", "a", <<Identifier("b")>>),
       Stmt("=>", "@b", <<>>),
       Stmt("label", "@b", <<>>),
       Stmt("assign", "a", <<Identifier("b")>>) >>

LastStateBranchesBack ==
    << Stmt("label", "@a", <<>>),
       Stmt("cond", "@c", <<Identifier("a")>>),
       Stmt("label", "@b", <<>>),
       Stmt("assign", "a", <<Identifier("b")>>),
       Stmt("label", "@c", <<>>),
       Stmt("assign", "a", <<Identifier("b")>>),
       Stmt("=>", "@b", <<>>) >>

\* The last instruction of the emitted program.
LastInstruction == dsmal.instructions[Len(dsmal.instructions)]

\* C20, as stated: the last instruction of every program emitted by compile
\* is Xx.
C20_LastIsXx == Compiled => LastInstruction.opcode = "Xx"

\* C20, amended: the instruction list ends with Xx when the peephole passes
\* begin; the last instruction of the emitted program is Xx or, when the
\* closing Xx was unreachable and the passes deleted it, a Ju to an earlier
\* instruction.
C20_LastIsXxOrJuBack ==
    Compiled =>
        /\ EmittedIR[Len(EmittedIR)].opcode = "Xx"
        /\ \/ LastInstruction.opcode = "Xx"
           \/ /\ LastInstruction.opcode = "Ju"
              /\ LastInstruction.param < Len(dsmal.instructions) - 1

\* LastStateBranchesBack is compiled to Lv0 Jn6 Xx Lv1 St0 Xx Lv1 St0 Ju3:
\* the last state ends with a branch to the state before it, and the program
\* ends with that Ju.
C20_Witness ==
    /\ Compiled
    /\ SourceIs(LastStateBranchesBack)
    /\ dsmal.instructions =
          <<Instr("Lv", 0), Instr("Jn", 6), Instr("Xx", 0), Instr("Lv", 1), Instr("St", 0),
            Instr("Xx", 0), Instr("Lv", 1), Instr("St", 0), Instr("Ju", 3)>>

\* ---------------------------------------- Claims about pruning and linking
\* Checked under PeepholeSpec.

\* Where execution may go on after instruction i of the program d (the
\* instructions of a program count from 0).
Following(d, i) ==
    (IF d.instructions[i + 1].opcode \notin {"Ju", "Xx"} THEN {i + 1} ELSE {})
    \cup (IF d.instructions[i + 1].opcode \in Jumps THEN {d.instructions[i + 1].param} ELSE {})

RECURSIVE ReachableInstructions(_, _)
\* The instructions of d that are reached from those of `found`.
ReachableInstructions(d, found) ==
    LET more == (UNION {Following(d, i) : i \in found} \cap 0..(Len(d.instructions) - 1)) \ found
    IN IF more = {} THEN found ELSE ReachableInstructions(d, found \cup more)

\* The source lines the source map names.
MappedLines == {source_map[i] : i \in DOMAIN source_map}

\* Line n is an action that stands, in its state, after an unconditional branch.
AfterUnconditionalBranch(n) ==
    /\ source[n].type # "label"
    /\ \E m \in 1..(n - 1) :
          source[m].type = "=>" /\ StateOfLine(source, m) = StateOfLine(source, n)

\* The line on which the state of line n begins.
LabelLine(n) ==
    CHOOSE j \in 1..n : source[j].type = "label" /\ source[j].name = StateOfLine(source, n)

\* Line n is an action of a state that is not the first, that no branch of the
\* text names, and that follows a state with actions.
NothingBranchesTo(n) ==
    /\ source[n].type # "label"
    /\ LabelLine(n) > 1
    /\ source[LabelLine(n) - 1].type # "label"
    /\ \A j \in DOMAIN source : IsBranchStmt(source[j]) => source[j].name # StateOfLine(source, n)

\* @a: => @c; a = b   @b: a = b   @c: a = b
DeadStatementAndState ==
    << Stmt("label", "@a", <<>>),
       Stmt("=>", "@c", <<>>),
       Stmt("assign", "a", <<Identifier("b")>>),
       Stmt("label", "@b", <<>>),
       Stmt("assign", "a", <<Identifier("b")>>),
       Stmt("label", "@c", <<>>),
       Stmt("assign", "a", <<Identifier("b")>>) >>

C22_JumpsAreLinked ==
    /\ cstage # "raised"
    /\ Compiled =>
          \A i \in DOMAIN instructions :
              instructions[i].opcode \in Jumps =>
                  /\ dsmal.instructions[i].opcode = instructions[i].opcode
                  /\ dsmal.instructions[i].param \in 0..(Len(instructions) - 1)
                  /\ instructions[i].name \in Range(instructions[dsmal.instructions[i].param + 1].labels)

\* BranchOverBranch is compiled: the Ju of @b was pruned and the Ju of @a
\* deleted, and the Jn that is left is linked to the instruction that carries
\* @c, the third of the program.
C22_Witness ==
    /\ Compiled
    /\ SourceIs(BranchOverBranch)
    /\ Len(instructions) < Len(EmittedIR) - 1
    /\ instructions[2].opcode = "Jn"
    /\ instructions[2].name = "@c"
    /\ dsmal.instructions[2] = Instr("Jn", 2)
    /\ LabelledWith("@c") = {3}

\* ------------------------------------------- Claims about the emitted expressions
\* Checked under EffectSpec.

OperandsError == "instruction requires operand(s), but the stack only has"

\* C23: the code of every compiled program is stack-balanced: no run raises
\* 'instruction ... requires k operand(s), but the stack only has m', and the
\* stack is empty when Xx has executed.
C23_StackBalanced ==
    /\ execution_error.msg # OperandsError
    /\ mstatus = "returned" => stack = <<>>

\* `(a = b) + 1 => @b` was compiled to Lv St Lo Ad Jn Xx Xx: the assignment
\* stored its value and left nothing on the stack, and the run has raised at
\* Ad, which needs two operands and finds the 1 alone.
C23_AdFindsOneOperand ==
    /\ SourceIs(<<Stmt("label", "@a", <<>>),
                  Stmt("cond", "@b", <<BinOp(Assignment("a", Identifier("b"), 0), "+", Num(1))>>),
                  Stmt("label", "@b", <<>>)>>)
    /\ [i \in DOMAIN dsmal.instructions |-> dsmal.instructions[i].opcode]
          = <<"Lv", "St", "Lo", "Ad", "Jn", "Xx", "Xx">>
    /\ mstatus = "raised"
    /\ execution_error = ExecutionError(OperandsError, 3, "Ad", <<2, 1>>)


\* AST.optimize: the loop, from the AST `ast` after `passes` passes.
RECURSIVE optimize_from(_, _)
optimize_from(ast, passes) ==
    IF ast.keep_optimizing /\ passes < MaxOptimizationPasses
    THEN optimize_from(optimization_pass(ast), passes + 1)
    ELSE ast

\* AST.optimize()
AST_optimize(ast) == optimize_from([ast EXCEPT !.keep_optimizing = TRUE], 0)

\* The AST the parser returned, before AST.optimize.
ParsedAST == AST(declared_variable_names, initializations, states, TRUE)

Parsed == cstage = "compiling" /\ pstatus = "ok" /\ optimization_passes = 0

\* The program generated from an AST.
CodeOf(ast) ==
    generate_code(Alphabetical(variable_names) \o Alphabetical(ast.declared_variable_names),
                  ast.initializations, ast.states)

RunFuel == 60

\* The run of a new machine from the execution state x to its end, the random
\* source yielding the values rs; draws: the values drawn so far.
RECURSIVE RunWith(_, _, _, _, _)
RunWith(prog, x, rs, draws, fuel) ==
    IF fuel = 0 \/ x.status # "running" THEN [x |-> x, draws |-> draws]
    ELSE LET d == Draws(prog, <<>>, x)
             r == IF d /\ draws < Len(rs) THEN rs[draws + 1] ELSE DECIMAL_ZERO
         IN RunWith(prog, StepFn(prog, <<>>, x, r), rs, IF d THEN draws + 1 ELSE draws, fuel - 1)

\* What a run of the program shows: whether it raised, the values of the
\* variables the program was compiled for, and the number of random draws.
Outcome(code, kwargs, rs) ==
    LET prog == code.program
        run == RunWith(prog, StartOfRun(machine_values(prog.variables, kwargs), DefaultIterator,
                                        Len(prog.instructions)), rs, 0, RunFuel)
    IN [raised |-> run.x.status = "raised",
        values |-> [n \in variable_names |->
                       run.x.variables[CHOOSE i \in DOMAIN prog.variables : prog.variables[i] = n]],
        draws |-> run.draws]

RandomSequences == [1..2 -> RandomNumbers]

\* C24: optimization preserves the behaviour of the program: for every
\* accepted text, all variable values and every random sequence, the code
\* generated from the optimized AST raises when the code generated from the
\* AST as parsed raises, ends with the same variable values, and draws as
\* many random numbers.
C24_OptimizationPreservesBehaviour ==
    Parsed =>
        LET optimized == CodeOf(AST_optimize(ParsedAST))
            unoptimized == CodeOf(ParsedAST)
        IN \A kwargs \in EffectKwargs, rs \in RandomSequences :
              Outcome(optimized, kwargs, rs) = Outcome(unoptimized, kwargs, rs)

\* `a = random! || 1` was compiled to Lo St Xx and run: the run has drawn no
\* random number, and the code of the AST as parsed, Lr Jn Lo Jn Lz Ju Lo St
\* Xx, draws one.
C24_RunWithoutDraw ==
    /\ SourceIs(<<Stmt("label", "@a", <<>>),
                  Stmt("assign", "a", <<Infix(RandomValue, "||", Num(1))>>)>>)
    /\ [i \in DOMAIN dsmal.instructions |-> dsmal.instructions[i].opcode] = <<"Lo", "St", "Xx">>
    /\ mstatus = "returned"
    /\ drawn = <<>>
    /\ LET unoptimized == CodeOf(AST({}, <<>>, <<State("@a", <<Assignment("a",
                              LogicalOp("||", <<RandomValue, Num(1)>>), 2)>>, 0)>>, TRUE))
       IN /\ [i \in DOMAIN unoptimized.program.instructions |->
                 unoptimized.program.instructions[i].opcode]
                = <<"Lr", "Jn", "Lo", "Jn", "Lz", "Ju", "Lo", "St", "Xx">>
          /\ Outcome(unoptimized, NoKwargs, <<DECIMAL_ZERO, DECIMAL_ZERO>>).draws = 1


\* ------------------------------------------------ Claims about the optimizer
\* Checked under FoldSpec.

\* C25: every literal whose value is zero is emitted as Lz and every literal
\* whose value is one as Lo, however it was written, supplied or computed: the
\* constants of a compiled program never hold a value equal to 0 or to 1.
C25_NoConstantZeroOrOne ==
    Compiled =>
        \A i \in DOMAIN dsmal.constants :
            /\ DecCmp(dsmal.constants[i], DECIMAL_ZERO) # 0
            /\ DecCmp(dsmal.constants[i], DECIMAL_ONE) # 0

\* `a = 0.5 + 0.5` was compiled: the sum was folded to Decimal('1.0'), whose
\* str() is not '1', and the program is ;1.0;Lc0 St Xx.
C25_FoldedOneIsAConstant ==
    /\ SourceIs(<<Stmt("label", "@a", <<>>), Stmt("assign", "a", <<BinOp(Point5, "+", Point5)>>)>>)
    /\ Compiled
    /\ dsmal.constants = <<<<0, 10, -1>>>>
    /\ str(dsmal.constants[1]) = <<"1", ".", "0">>
    /\ dsmal.instructions = <<Instr("Lc", 0), Instr("St", 0), Instr("Xx", 0)>>


\* ------------------------------------------------ Claims about membership
\* Checked under RangeSpec.

\* The value a variable of the program has.
ValueOf(name) == variables[CHOOSE i \in DOMAIN dsmal.variables : dsmal.variables[i] = name]

\* The value of an operand of the text, a number or a variable.
OperandValue(e) == IF e.kind = "identifier" THEN ValueOf(e.name) ELSE e.value

\* low <= operand (low < operand if the lower bracket is round) and
\* operand <= high (operand < high if the upper bracket is round)
InRange(operand, low, high, low_is_inclusive, high_is_inclusive) ==
    /\ IF low_is_inclusive THEN DecCmp(low, operand) <= 0 ELSE DecCmp(low, operand) < 0
    /\ IF high_is_inclusive THEN DecCmp(operand, high) <= 0 ELSE DecCmp(operand, high) < 0

\* The last statement of the text.
LastStatement == source[Len(source)]

\* The text ends with a = operand in <low, high>.
EndsWithRange ==
    /\ source # <<>>
    /\ LastStatement.type = "assign"
    /\ LastStatement.expr[1].kind = "RangeMembership"

\* What the range membership the text ends with is worth, the variables having
\* the values they have.
RangeExpected ==
    LET r == LastStatement.expr[1]
    IN Bool(InRange(OperandValue(r.kids[1]), OperandValue(r.kids[2]), OperandValue(r.kids[3]),
                    low_inclusive(r), high_inclusive(r)))

\* The value AST.optimize leaves for the last assignment of the only state.
FoldedValue ==
    LET actions == AST_optimize(ParsedAST).states[1].kids
    IN actions[Len(actions)].kids[1]

\* C26: range membership respects inclusivity on both ends: the run of the
\* emitted code stores 1 if low <= operand (low < operand after a round
\* bracket) and operand <= high (operand < high before a round bracket), and 0
\* otherwise; and so does the constant folder when the operand and the bounds
\* are literals.
C26_RangeRespectsInclusivity ==
    /\ (EndsWithRange /\ Compiled /\ mstatus = "returned") =>
          ValueOf(LastStatement.name) = RangeExpected
    /\ (EndsWithRange /\ Parsed /\ Identifiers(LastStatement.expr[1]) = {}) =>
          LET r == LastStatement.expr[1]
          IN FoldedValue = Literal(Bool(InRange(r.kids[1].value, r.kids[2].value, r.kids[3].value,
                                                low_inclusive(r), high_inclusive(r))))

\* `a = b in [1, 3)` was compiled to Lv Cp Lo Ge Jz Lc Ge Nt Ju Pp Lz St Xx
\* and run with b = 3: a is 0; and `a = 3 in [1, 3)` was folded to 0.
C26_Witness ==
    /\ SourceIs(<<Stmt("label", "@a", <<>>),
                  Stmt("assign", "a", <<RangeMembership(Identifier("b"), Num(1), Num(3), TRUE, FALSE)>>)>>)
    /\ [i \in DOMAIN dsmal.instructions |-> dsmal.instructions[i].opcode]
          = <<"Lv", "Cp", "Lo", "Ge", "Jz", "Lc", "Ge", "Nt", "Ju", "Pp", "Lz", "St", "Xx">>
    /\ mstatus = "returned"
    /\ ValueOf("b") = Dec(3)
    /\ ValueOf("a") = DECIMAL_ZERO
    /\ RangeMembership_fold_constants(RangeMembership(Num(3), Num(1), Num(3), TRUE, FALSE))
          = BinOp(Num(3), "<", Num(3))
    /\ BinOp_fold_constants(BinOp(Num(3), "<", Num(3))) = Literal(DECIMAL_ZERO)


\* ---------------------------------------------- Claims about || and &&
\* Checked under LogicSpec.

\* The predicates of p op q op r, however it is bracketed.
RECURSIVE Predicates(_, _)
Predicates(e, op) ==
    IF e.kind = "infix" /\ e.op = op
    THEN Predicates(e.kids[1], op) \o Predicates(e.kids[2], op)
    ELSE <<e>>

\* The evaluation of the predicates from left to right, which ends at the
\* first that decides (non-zero for ||, zero for &&); k: the random numbers
\* drawn before.  A predicate is a variable, random! or 1 / c.
RECURSIVE EvalPredicates(_, _, _)
EvalPredicates(predicates, op, k) ==
    IF predicates = <<>> THEN [raised |-> FALSE, draws |-> k, value |-> Bool(op = "&&")]
    ELSE LET p == Head(predicates)
             draws == IF p.kind = "RandomValue" THEN k + 1 ELSE k
             zero == IF p.kind = "RandomValue" THEN k < Len(drawn) /\ IsZero(drawn[k + 1])
                     ELSE IF p.kind = "identifier" THEN IsZero(ValueOf(p.name))
                     ELSE FALSE
         IN IF p.kind = "BinOp" /\ IsZero(ValueOf("c"))
            THEN [raised |-> TRUE, draws |-> k, value |-> DECIMAL_ZERO]
            ELSE IF zero <=> op = "&&"
            THEN [raised |-> FALSE, draws |-> draws, value |-> Bool(op = "||")]
            ELSE EvalPredicates(Tail(predicates), op, draws)

\* The assignments of the text, in order.
AssignStatements == SelectSeq(source, LAMBDA stmt : stmt.type = "assign")

\* The evaluation of the assignments a = p op q ..., one after the other.
RECURSIVE EvalStatements(_, _, _)
EvalStatements(stmts, k, value) ==
    IF stmts = <<>> THEN [raised |-> FALSE, draws |-> k, value |-> value]
    ELSE LET e == Head(stmts).expr[1]
             r == EvalPredicates(Predicates(e, e.op), e.op, k)
         IN IF r.raised THEN r ELSE EvalStatements(Tail(stmts), r.draws, r.value)

LeftNested(e) == e.kind = "infix" /\ e.kids[1].kind = "infix"

\* p op (q op r), for (p op q) op r
RightNested(e) ==
    Infix(e.kids[1].kids[1], e.op, Infix(e.kids[1].kids[2], e.op, e.kids[2]))

\* The program of the text in which action i of the only state assigns e.
CodeWith(i, e) ==
    CodeOf(AST_optimize([ParsedAST EXCEPT !.states[1].kids[i].kids[1] =
                            nud(e, constants, variable_names)]))

\* C27: the code emitted for || (&&) evaluates the predicates from left to
\* right and none after the first that is non-zero (zero): the run draws a
\* random number and divides only for the predicates before and at that one,
\* it stores 1 if some predicate was non-zero (all were) and 0 otherwise, and
\* leaves nothing else on the stack; and (p || q) || r and p || (q || r)
\* compile to the same code.
C27_LeftToRightAndShortCircuit ==
    /\ (Compiled /\ mstatus \in {"returned", "raised"} /\ AssignStatements # <<>>) =>
          LET r == EvalStatements(AssignStatements, 0, DECIMAL_ZERO)
          IN /\ (mstatus = "raised") = r.raised
             /\ Len(drawn) = r.draws
             /\ r.raised => execution_error.msg = "illegal Dv"
             /\ ~r.raised => ValueOf("a") = r.value /\ stack = <<>>
    /\ Parsed =>
          \A i \in DOMAIN AssignStatements :
              LeftNested(AssignStatements[i].expr[1]) =>
                  CodeWith(i, RightNested(AssignStatements[i].expr[1]))
                      = CodeWith(i, AssignStatements[i].expr[1])

\* `a = b || random! || 1 / c` was compiled to Lv Jn Lr Jn Lo Lv Dv Jn Lz Ju
\* Lo St Xx and run with b = 0 and c = 0: the random number was not zero, the
\* run has not divided and has stored 1.
C27_Witness ==
    /\ SourceIs(<<Stmt("label", "@a", <<>>),
                  Stmt("assign", "a", <<Infix(Infix(Identifier("b"), "||", RandomValue), "||", OneOverC)>>)>>)
    /\ [i \in DOMAIN dsmal.instructions |-> dsmal.instructions[i].opcode]
          = <<"Lv", "Jn", "Lr", "Jn", "Lo", "Lv", "Dv", "Jn", "Lz", "Ju", "Lo", "St", "Xx">>
    /\ mstatus = "returned"
    /\ IsZero(ValueOf("b")) /\ IsZero(ValueOf("c"))
    /\ drawn = <<<<0, 5, -1>>>>
    /\ ValueOf("a") = DECIMAL_ONE
    /\ executed = 7


\* ------------------------------------- Claims about the optimization passes
\* Checked under FoldSpec.

\* The sum of a sequence of numbers.
RECURSIVE Sum(_)
Sum(numbers) == IF numbers = <<>> THEN 0 ELSE Head(numbers) + Sum(Tail(numbers))

\* The nodes of an expression, an action or a state.
RECURSIVE NodeCount(_)
NodeCount(node) == 1 + Sum([i \in DOMAIN node.kids |-> NodeCount(node.kids[i])])

\* The nodes of an AST.
ASTNodeCount(ast) ==
    Sum([i \in DOMAIN ast.initializations |-> NodeCount(ast.initializations[i])])
    + Sum([i \in DOMAIN ast.states |-> NodeCount(ast.states[i])])

\* The variables an expression, an action or a state refers to.
RECURSIVE Referenced(_)
Referenced(node) ==
    (IF node.kind = "Variable" THEN {node.name} ELSE {})
    \cup UNION {Referenced(node.kids[i]) : i \in DOMAIN node.kids}

\* The variables an AST refers to.
ASTReferenced(ast) ==
    UNION {Referenced(ast.initializations[i]) : i \in DOMAIN ast.initializations}
    \cup UNION {Referenced(ast.states[i]) : i \in DOMAIN ast.states}

\* The AST of a text whose only state has these actions.
ParsedASTOf(actions) == AST({}, <<>>, <<State("@a", actions, 0)>>, TRUE)

\* The AST AST.optimize holds between two passes.
CurrentAST == AST(declared_variable_names, initializations, states, keep_optimizing)

BetweenPasses == cstage = "compiling" /\ pstatus = "ok"

\* C28: constant folding is monotone: a fold pass, and a whole pass of
\* AST.optimize, leaves an AST that has no more nodes and refers to no more
\* variables than the AST it was given.
C28_FoldingIsMonotone ==
    BetweenPasses =>
        LET folded == ast_fold_constants(CurrentAST)
            passed == optimization_pass(CurrentAST)
        IN /\ ASTNodeCount(folded) <= ASTNodeCount(CurrentAST)
           /\ ASTReferenced(folded) \subseteq ASTReferenced(CurrentAST)
           /\ ASTNodeCount(passed) <= ASTNodeCount(folded)
           /\ ASTReferenced(passed) \subseteq ASTReferenced(folded)

\* The first pass on `a = 2 in [1, b)` has rewritten the membership, of four
\* nodes, into the comparison 2 < b, of three.
C28_Witness ==
    /\ SourceIs(<<Stmt("label", "@a", <<>>),
                  Stmt("assign", "a", <<RangeMembership(Num(2), Num(1), Identifier("b"), TRUE, FALSE)>>)>>)
    /\ BetweenPasses
    /\ optimization_passes = 1
    /\ states[1].kids[1].kids[1] = BinOp(Num(2), "<", Variable("b"))
    /\ ASTNodeCount(CurrentAST) = 5
    /\ ASTNodeCount(ParsedASTOf(<<Assignment("a",
           RangeMembership(Num(2), Num(1), Variable("b"), TRUE, FALSE), 2)>>)) = 6


\* The step is a pass of AST.optimize.
IsPass == optimization_passes' # optimization_passes

\* The step changes the AST.
ASTChanges ==
    <<declared_variable_names, initializations, states>>'
        # <<declared_variable_names, initializations, states>>

\* The step leaves AST.optimize and goes on to the code generator.
LeavesOptimize == cstage = "compiling" /\ cstage' # "compiling"

\* C29: AST.optimize folds and inlines to a fixed point, in at most 10
\* passes: there are never more than 10 passes; a pass asks for another one
\* exactly when it has changed the AST (a node folded, a branch removed, a
\* variable inlined), and nothing else asks for or calls off a pass or
\* changes the AST once it is parsed; and the code is generated only after at
\* least one pass, when the 10th pass has run or the last pass has changed
\* nothing, the AST then being a fixed point of the pass.
C29_FixedPointWithinTenPasses ==
    [][/\ optimization_passes' <= MaxOptimizationPasses
       /\ IF IsPass
          THEN /\ optimization_passes' = optimization_passes + 1
               /\ keep_optimizing' <=> ASTChanges
          ELSE keep_optimizing' = keep_optimizing /\ (pstatus = "ok" => ~ASTChanges)
       /\ LeavesOptimize =>
             /\ optimization_passes >= 1
             /\ optimization_passes = MaxOptimizationPasses \/ ~keep_optimizing
             /\ ~keep_optimizing =>
                   LET again == optimization_pass(CurrentAST)
                   IN /\ again.initializations = initializations
                      /\ again.states = states
                      /\ again.declared_variable_names = declared_variable_names]_vars

\* `a = ((1 in [0, 2]) in [0, 2]) ...`, ten memberships deep, was compiled:
\* each of the ten passes has changed the AST, the tenth has left the
\* comparison 1 <= 2 that an eleventh would fold, and the program is
\* ;2;Lc0 Lo Ge St Xx.
C29_Witness ==
    /\ SourceIs(<<Stmt("label", "@a", <<>>), Stmt("assign", "a", <<Nested(10)>>)>>)
    /\ Compiled
    /\ optimization_passes = MaxOptimizationPasses
    /\ keep_optimizing
    /\ states[1].kids[1].kids[1] = BinOp(Num(1), "<=", Num(2))
    /\ dsmal.instructions = <<Instr("Lc", 0), Instr("Lo", 0), Instr("Ge", 0), Instr("St", 0), Instr("Xx", 0)>>


\* The variables the text declares.
Declared == {stmt.name : stmt \in {s \in Range(source) : s.type = "let"}}

\* The line of the declaration of a variable.
DeclarationLine(v) == CHOOSE i \in DOMAIN source : source[i].type = "let" /\ source[i].name = v

\* The variables the statements of the states assign to, as statements or
\* inside a condition.
StateAssigned ==
    {stmt.name : stmt \in {s \in Range(source) : s.type = "assign"}}
    \cup {a.name : a \in UNION {Assignments(s.expr[1]) :
                                  s \in {s \in Range(source) : s.type \in {"assign", "cond"}}}}

\* The optimizer has inlined the declared variable.
Inlined(v) == v \in Declared /\ v \notin declared_variable_names

\* The program has a slot for the variable and begins with the code of its
\* initialization, which ends with St of that slot.
KeepsSlotAndInitialization(v) ==
    /\ v \in Range(dsmal.variables)
    /\ \E i \in DOMAIN dsmal.instructions :
          /\ dsmal.instructions[i] = Instr("St", IndexOf(dsmal.variables, v) - 1)
          /\ source_map[i] = DeclarationLine(v)
          /\ \A j \in 1..i : source_map[j] \in 1..DeclarationLine(v)

\* compile has ended: it returned the program or raised while generating it.
CompileEnded == cstage \in {"done", "raised"}

\* C30: a declared variable is inlined only if no state assigns to it, and
\* the program then has no slot, no Lv and no St for it; a declared variable
\* that some state assigns to keeps its slot and its initialization code,
\* which comes before the code of the first state.
C30_InlinedOnlyIfUnassigned ==
    CompileEnded =>
        \A v \in Declared :
            /\ Inlined(v) =>
                  /\ v \notin StateAssigned
                  /\ v \notin Range(dsmal.variables)
                  /\ \A i \in DOMAIN instructions :
                        instructions[i].opcode \in {"Lv", "St"} => instructions[i].name # v
            /\ v \in StateAssigned => Compiled /\ KeepsSlotAndInitialization(v)

\* `let t = 1 / @a: (t = 2) + 1 => @b / @b:`: the state assigns to t inside
\* the condition; t was inlined all the same, the St of the assignment names
\* a variable that has no slot, and generate_code has raised KeyError.
C30_InlinedThoughAssigned ==
    /\ SourceIs(<<Stmt("let", "t", <<Num(1)>>),
                  Stmt("label", "@a", <<>>),
                  Stmt("cond", "@b", <<BinOp(Assignment("t", Num(2), 0), "+", Num(1))>>),
                  Stmt("label", "@b", <<>>)>>)
    /\ cstage = "raised"
    /\ Inlined("t")
    /\ initializations = <<>>
    /\ states[1].kids[1].kids[1] = BinOp(Assignment("t", Num(2), 3), "+", Num(1))

====
